---- MODULE Spec2Model ----
(***************************************************************************)
(* A model of webapp/go/main.go: the estate search with its Redis ID-list  *)
(* cache (searchEstates, searchEstatesWithCache, the fill goroutine,       *)
(* postEstate, initialize) and the chair purchase (buyChair).              *)
(*                                                                         *)
(* Strings are sequences of one-character strings, so that strconv.Atoi,   *)
(* strings.Join and strings.Split are computed as the code computes them.  *)
(***************************************************************************)
EXTENDS Integers, Sequences, FiniteSets, TLC

(***************************************************************************)
(* Bounds of the model.                                                    *)
(***************************************************************************)
\* estate ids are 1..MaxEstates
MaxEstates == 3
\* page is drawn from 0..MaxPage
MaxPage == 1
\* perPage is drawn from 0..MaxPerPage
MaxPerPage == 2
\* request handlers that serve estate searches concurrently
NumProcs == 2
\* raw parameter strings given to genCacheKey are at most this long
MaxStrLen == 1
\* kinds of request sent in one run
MaxKinds == 2
\* concurrent buyChair requests
NumBuyers == 3
\* chair ids are 1..MaxChairs, a chair is imported with stock 0..MaxStock
MaxChairs == 1
MaxStock == 2
\* raw range ids given to getRange are at most this long
MaxIdLen == 2
\* a range condition given to getRange holds at most this many buckets
MaxRanges == 2
\* a polygon has at most this many vertices
MaxVertices == 4
\* the bounding box of a polygon holds at most this many estates
MaxCandidates == 60

(***************************************************************************)
(* Strings.                                                                *)
(***************************************************************************)
Digits == <<"0", "1", "2", "3", "4", "5", "6", "7", "8", "9">>

IsDigit(c) == \E i \in 1..Len(Digits) : Digits[i] = c

DigitVal(c) == (CHOOSE i \in 1..Len(Digits) : Digits[i] = c) - 1

RECURSIVE DigitsVal(_)
DigitsVal(s) ==
    IF s = <<>> THEN 0
    ELSE 10 * DigitsVal(SubSeq(s, 1, Len(s) - 1)) + DigitVal(s[Len(s)])

\* strconv.Atoi: an optional sign, then one or more decimal digits
Atoi(s) ==
    LET signed == s # <<>> /\ s[1] \in {"+", "-"}
        body   == IF signed THEN Tail(s) ELSE s
    IN  IF body = <<>> \/ \E i \in 1..Len(body) : ~IsDigit(body[i])
        THEN [ok |-> FALSE, val |-> 0]
        ELSE [ok |-> TRUE,
              val |-> IF signed /\ s[1] = "-" THEN 0 - DigitsVal(body)
                      ELSE DigitsVal(body)]

\* strings.Join(parts, sep)
RECURSIVE Join(_, _)
Join(parts, sep) ==
    IF parts = <<>> THEN <<>>
    ELSE IF Len(parts) = 1 THEN parts[1]
    ELSE parts[1] \o sep \o Join(Tail(parts), sep)

\* strings.Split(s, sep) for a one-character separator: never empty
RECURSIVE Split(_, _)
Split(s, sep) ==
    IF \A i \in 1..Len(s) : s[i] # sep THEN <<s>>
    ELSE LET i == CHOOSE j \in 1..Len(s) :
                      s[j] = sep /\ \A k \in 1..(j - 1) : s[k] # sep
         IN  <<SubSeq(s, 1, i - 1)>> \o Split(SubSeq(s, i + 1, Len(s)), sep)

(***************************************************************************)
(* The range catalog (estateSearchCondition), loaded once by init() from   *)
(* fixture/estate_condition.json: per attribute a sequence of buckets, the *)
(* first unbounded below (min = -1), the last unbounded above (max = -1).  *)
(***************************************************************************)
Unbounded == 0 - 1

estateSearchCondition ==
    [DoorHeight |-> [Ranges |-> << [Min |-> Unbounded, Max |-> 2],
                                   [Min |-> 2, Max |-> Unbounded] >>],
     DoorWidth  |-> [Ranges |-> << [Min |-> Unbounded, Max |-> 2],
                                   [Min |-> 2, Max |-> Unbounded] >>],
     Rent       |-> [Ranges |-> << [Min |-> Unbounded, Max |-> 3],
                                   [Min |-> 3, Max |-> Unbounded] >>]]

BadRequest == 400
InternalServerError == 500

\* getRange without the check of the index against the bounds
getRangeUnchecked(cond, rangeID) ==
    LET RangeIndex == Atoi(rangeID)
    IN  IF ~RangeIndex.ok THEN [err |-> TRUE, range |-> [Min |-> 0, Max |-> 0]]
        ELSE IF RangeIndex.val + 1 \in DOMAIN cond.Ranges
        THEN [err |-> FALSE, range |-> cond.Ranges[RangeIndex.val + 1]]
        ELSE [err |-> FALSE, range |-> [Min |-> 0, Max |-> 0]]

\* getRange: the bucket at a positional index, or an error
getRange(cond, rangeID) ==
    LET RangeIndex == Atoi(rangeID)
    IN  IF ~RangeIndex.ok THEN [err |-> TRUE, range |-> [Min |-> 0, Max |-> 0]]
        ELSE IF RangeIndex.val < 0 \/ Len(cond.Ranges) <= RangeIndex.val
        THEN [err |-> TRUE, range |-> [Min |-> 0, Max |-> 0]]
        ELSE [err |-> FALSE, range |-> cond.Ranges[RangeIndex.val + 1]]

\* one predicate with its bound parameter: "attr >= ?", "attr < ?" or
\* "features like concat('%', ?, '%')"
IntCond(attr, op, n) == [attr |-> attr, op |-> op, n |-> n, s |-> <<>>]
LikeCond(f) == [attr |-> "features", op |-> "like", n |-> 0, s |-> f]

\* the zero, one or two predicates of one range attribute
RangeConds(attr, r) ==
    (IF r.Min # Unbounded THEN <<IntCond(attr, ">=", r.Min)>> ELSE <<>>)
    \o (IF r.Max # Unbounded THEN <<IntCond(attr, "<", r.Max)>> ELSE <<>>)

FeatureConds(features) ==
    IF features = <<>> THEN <<>>
    ELSE LET fs == Split(features, ",")
         IN  [i \in 1..Len(fs) |-> LikeCond(fs[i])]

\* makeEstateConditions: the predicates in order, or status 400 with the
\* predicates collected before the bad range id
makeEstateConditions(doorHeightRangeID, doorWidthRangeID, rentRangeID, features) ==
    LET dh == getRange(estateSearchCondition.DoorHeight, doorHeightRangeID)
        dw == getRange(estateSearchCondition.DoorWidth, doorWidthRangeID)
        re == getRange(estateSearchCondition.Rent, rentRangeID)
        c1 == IF doorHeightRangeID # <<>> THEN RangeConds("door_height", dh.range) ELSE <<>>
        c2 == IF doorWidthRangeID # <<>> THEN RangeConds("door_width", dw.range) ELSE <<>>
        c3 == IF rentRangeID # <<>> THEN RangeConds("rent", re.range) ELSE <<>>
    IN  IF doorHeightRangeID # <<>> /\ dh.err
        THEN [conditions |-> <<>>, status |-> BadRequest]
        ELSE IF doorWidthRangeID # <<>> /\ dw.err
        THEN [conditions |-> c1, status |-> BadRequest]
        ELSE IF rentRangeID # <<>> /\ re.err
        THEN [conditions |-> c1 \o c2, status |-> BadRequest]
        ELSE [conditions |-> c1 \o c2 \o c3 \o FeatureConds(features), status |-> 0]

\* genCacheKey: the raw parameter strings joined by "_"
genCacheKey(doorHeightRangeID, doorWidthRangeID, rentRangeID, features) ==
    Join(<<doorHeightRangeID, doorWidthRangeID, rentRangeID, features>>, <<"_">>)

(***************************************************************************)
(* The estate table.  A row's attributes are a fixed function of its id    *)
(* (the rows of the seed data and of the uploaded CSV files); the state of *)
(* the table is the set of ids present.                                    *)
(***************************************************************************)
EstateIds == 1..MaxEstates

Estate(id) ==
    [id          |-> id,
     rent        |-> id,
     door_height |-> 1 + (id % 2),
     door_width  |-> 1 + ((id + 1) % 2),
     features    |-> IF id = 2 THEN <<>> ELSE <<"a">>,
     popularity  |-> (id + 1) % 2]

\* 1_DummyEstateData.sql: the rows initialize loads
SeedEstates == {1, 2}

\* MySQL's  s LIKE CONCAT('%', f, '%'):  f occurs in s, where a "_" of f
\* stands for any one character (the input is not escaped)
Like(s, f) ==
    \E i \in 0..(Len(s) - Len(f)) :
        \A j \in 1..Len(f) : f[j] = "_" \/ f[j] = s[i + j]

\* one predicate of the WHERE clause on one row
Holds(cond, row) ==
    CASE cond.op = ">="   -> row[cond.attr] >= cond.n
      [] cond.op = "<"    -> row[cond.attr] < cond.n
      [] cond.op = "like" -> Like(row.features, cond.s)

\* WHERE conditions joined by AND
Where(conditions, rows) ==
    {id \in rows : \A i \in 1..Len(conditions) : Holds(conditions[i], Estate(id))}

\* ORDER BY popularity DESC, id ASC
Before(a, b) ==
    \/ Estate(a).popularity > Estate(b).popularity
    \/ Estate(a).popularity = Estate(b).popularity /\ a < b

RECURSIVE OrderBy(_)
OrderBy(ids) ==
    IF ids = {} THEN <<>>
    ELSE LET first == CHOOSE a \in ids : \A b \in ids \ {a} : Before(a, b)
         IN  <<first>> \o OrderBy(ids \ {first})

Min(a, b) == IF a < b THEN a ELSE b
Max(a, b) == IF a < b THEN b ELSE a

\* LIMIT ? OFFSET ? on an ordered result, for limit >= 0 and offset >= 0
LimitOffset(rows, limit, offset) ==
    SubSeq(rows, offset + 1, Min(offset + limit, Len(rows)))

(***************************************************************************)
(* Redis lists.  A key that holds no list is the empty list: LLEN of a     *)
(* missing key is 0 and LRANGE of it is empty.                             *)
(***************************************************************************)
\* fmt.Sprintf("%d", v)
RECURSIVE Itoa(_)
Itoa(v) ==
    IF v < 0 THEN <<"-">> \o Itoa(0 - v)
    ELSE IF v < 10 THEN <<Digits[v + 1]>>
    ELSE Itoa(v \div 10) \o <<Digits[(v % 10) + 1]>>

\* LRANGE key start stop: both ends inclusive, a negative index counts from
\* the end of the list
LRange(list, start, stop) ==
    LET n  == Len(list)
        s0 == IF start < 0 THEN Max(start + n, 0) ELSE start
        e0 == IF stop < 0 THEN stop + n ELSE Min(stop, n - 1)
    IN  IF s0 > e0 \/ s0 >= n THEN <<>> ELSE SubSeq(list, s0 + 1, e0 + 1)

(***************************************************************************)
(* Requests.  A search request is its four raw query parameters; the model *)
(* serves these: a rent bucket, a feature token, a rent id that is no      *)
(* number, and no filter at all.                                           *)
(***************************************************************************)
Request(dh, dw, rent, features) ==
    [doorHeightRangeId |-> dh, doorWidthRangeId |-> dw,
     rentRangeId |-> rent, features |-> features]

ReqRent == Request(<<>>, <<>>, <<"0">>, <<>>)
ReqFeat == Request(<<>>, <<>>, <<>>, <<"_">>)
ReqBad  == Request(<<>>, <<>>, <<"_">>, <<>>)
ReqNone == Request(<<>>, <<>>, <<>>, <<>>)

SearchRequests == {ReqRent, ReqFeat, ReqBad, ReqNone}

Key(r) == genCacheKey(r.doorHeightRangeId, r.doorWidthRangeId, r.rentRangeId, r.features)

Conditions(r) ==
    makeEstateConditions(r.doorHeightRangeId, r.doorWidthRangeId, r.rentRangeId, r.features)

CacheKeys == {Key(r) : r \in SearchRequests}

Procs == 1..NumProcs

StatusOK == 200
StatusCreated == 201
NotFound == 404

Response(status, count, estates) ==
    [status |-> status, count |-> count, estates |-> estates]

NoResponse == Response(0, 0, <<>>)

(***************************************************************************)
(* State.                                                                  *)
(***************************************************************************)
VARIABLES
    estate,      \* the ids of the rows of table estate
    chair,       \* table chair: chair id -> stock, for the rows present
    redis,       \* cache key -> list of decimal strings
    search,      \* per handler: the searchEstates request it serves
    fill,        \* per handler: the cache-fill goroutine its last miss started
    admin,       \* the handler of postEstate and initialize
    clients,     \* the requests the clients of this run send
    rowLock,     \* chair id -> the buyChair transaction holding its row lock (0: none)
    buyer,       \* per buyChair request: its position and what it read
    call,        \* one call of a pure function: its arguments and its result
    inval,       \* history, per key: purged while cached, and written since?
    imported,    \* history, per chair id: the stock of the last import
    sold         \* history, per chair id: purchases committed since that import

vars == <<estate, chair, redis, search, fill, admin, clients, rowLock, buyer, call,
          inval, imported, sold>>

cacheVars == <<estate, redis, search, fill, admin, clients, inval, call>>
chairVars == <<rowLock, buyer, imported, sold>>

IdleSearch ==
    [pc |-> "idle", req |-> ReqNone, limit |-> 0, offset |-> 0, length |-> 0,
     ids |-> <<>>, count |-> 0, resp |-> NoResponse, path |-> "none",
     did |-> {}, obs |-> "none", raced |-> FALSE, page |-> <<>>, perPage |-> <<>>,
     after |-> FALSE]

\* after and pre are history: the search that spawned the goroutine arrived
\* between the purge of an initialize and the end of its load, and the
\* goroutine's query ran before the end of that load
NoFill == [pc |-> "none", req |-> ReqNone, ids |-> <<>>, after |-> FALSE, pre |-> FALSE]

\* before and purged are history: table estate when the request began, and
\* whether the request has purged the cache
IdleAdmin == [pc |-> "idle", rows |-> {}, status |-> 0, before |-> {}, purged |-> FALSE]

NoCall == [fn |-> "none"]

\* the clients of a run send at most MaxKinds kinds of request: each
\* different search request is one kind, postEstate is one, initialize is one
Workloads ==
    {w \in [reqs : SUBSET SearchRequests \ {{}}, post : BOOLEAN, init : BOOLEAN] :
        Cardinality(w.reqs) + (IF w.post THEN 1 ELSE 0) + (IF w.init THEN 1 ELSE 0)
            <= MaxKinds}

\* a run in which table estate is never written
ReadOnly == ~clients.post /\ ~clients.init

EmptyRedis == [k \in CacheKeys |-> <<>>]

\* a request that passes makeEstateConditions with at least one condition
ValidFilter(r) == Conditions(r).status = 0 /\ Conditions(r).conditions # <<>>

(***************************************************************************)
(* The queries of the search.                                              *)
(***************************************************************************)
\* SELECT COUNT(*) FROM estate WHERE ...
CountQuery(conditions, rows) == Cardinality(Where(conditions, rows))

\* SELECT * FROM estate WHERE ... ORDER BY popularity DESC, id ASC LIMIT ? OFFSET ?
SelectQuery(conditions, rows, limit, offset) ==
    LimitOffset(OrderBy(Where(conditions, rows)), limit, offset)

\* searchEstateIDsFromMysql: the full ordered id list, empty on an error
searchEstateIDsFromMysql(r, rows) ==
    LET mc == Conditions(r)
    IN  IF mc.status # 0 \/ mc.conditions = <<>> THEN <<>>
        ELSE OrderBy(Where(mc.conditions, rows))

\* searchEstatesWithoutCache against one state of the table
searchEstatesWithoutCache(r, limit, offset, rows) ==
    LET mc == Conditions(r)
    IN  IF mc.status # 0 THEN Response(mc.status, 0, <<>>)
        ELSE IF mc.conditions = <<>> THEN Response(BadRequest, 0, <<>>)
        ELSE Response(StatusOK, CountQuery(mc.conditions, rows),
                      SelectQuery(mc.conditions, rows, limit, offset))

\* searchEstatesFromIDs: WHERE id IN (ids) ORDER BY popularity DESC, id ASC;
\* sqlx.In refuses an empty list, its error is dropped and the empty query
\* that is left fails in the store
searchEstatesFromIDs(ids, rows) ==
    IF ids = <<>> THEN [err |-> TRUE, estates |-> <<>>]
    ELSE [err |-> FALSE,
          estates |-> OrderBy({id \in rows : \E i \in 1..Len(ids) : ids[i] = id})]

\* the ids getEstateIDsFromRedis returns for a list, after its LLEN
getEstateIDsFromRedis(list, limit, offset) ==
    LET val == LRange(list, offset, offset + limit - 1)
    IN  [i \in 1..Len(val) |-> Atoi(val[i]).val]

\* the list putEstateIDsToRedis pushes
IdStrings(ids) == [i \in 1..Len(ids) |-> Itoa(ids[i])]

(***************************************************************************)
(* searchEstates.  The handler parses page and perPage, then               *)
(* searchEstatesWithCache reads the cache in two commands (LLEN, LRANGE);  *)
(* on a miss it answers from the store in two queries (COUNT, SELECT) and  *)
(* starts the fill goroutine before it returns.                            *)
(***************************************************************************)
\* go func(key) { ... }: the goroutine starts at its store query
SpawnFill(r, after) ==
    [pc |-> "Query", req |-> r, ids |-> <<>>, after |-> after, pre |-> FALSE]

\* the request arrives; LLEN.  A length of 0 is errCacheNotHit, and then
\* searchEstatesWithoutCache rejects a request it cannot build a query for.
\* A handler takes a new request once the goroutine of its last one is over.
SearchLLenOf(p, r, page, perPage) ==
    /\ fill[p].pc = "none"
    /\  LET length == Len(redis[Key(r)])
            mc     == Conditions(r)
            s0     == [IdleSearch EXCEPT !.req = r, !.limit = perPage,
                                         !.offset = page * perPage,
                                         !.did = {"cache"}, !.obs = inval[Key(r)],
                                         !.after = admin.pc = "Data"]
        IN  /\ inval' = [inval EXCEPT ![Key(r)] = "none"]
            /\ IF length # 0
               THEN /\ search' = [search EXCEPT ![p] =
                          [s0 EXCEPT !.pc = "LRange", !.length = length, !.path = "hit"]]
                    /\ fill' = fill
               ELSE IF mc.status # 0 \/ mc.conditions = <<>>
               THEN /\ search' = [search EXCEPT ![p] =
                          [s0 EXCEPT !.pc = "Done", !.path = "miss",
                                     !.did = {"cache", "fill"},
                                     !.resp = Response(BadRequest, 0, <<>>)]]
                    /\ fill' = [fill EXCEPT ![p] = SpawnFill(r, admin.pc = "Data")]
               ELSE /\ search' = [search EXCEPT ![p] =
                          [s0 EXCEPT !.pc = "Count", !.path = "miss"]]
                    /\ fill' = fill
    /\ UNCHANGED <<clients, estate, chair, redis, admin, chairVars>>

\* searchEstates with a page and a perPage that strconv.Atoi has parsed
SearchLLen(p) ==
    /\ search[p].pc = "idle"
    /\ \E r \in clients.reqs, page \in 0..MaxPage, perPage \in 0..MaxPerPage :
        SearchLLenOf(p, r, page, perPage)
    /\ UNCHANGED call

\* LRANGE key offset offset+limit-1.  raced records that the key was purged
\* after this request's LLEN and is still empty
SearchLRange(p) ==
    /\ search[p].pc = "LRange"
    /\ search' = [search EXCEPT ![p].pc = "FromIDs",
                                ![p].ids = getEstateIDsFromRedis(
                                    redis[Key(search[p].req)],
                                    search[p].limit, search[p].offset),
                                ![p].raced = /\ inval[Key(search[p].req)] = "purged"
                                             /\ redis[Key(search[p].req)] = <<>>]
    /\ UNCHANGED <<clients, call, estate, chair, redis, fill, admin, inval, chairVars>>

\* the rows of the cached ids; the count is the LLEN read before
SearchFromIDs(p) ==
    /\ search[p].pc = "FromIDs"
    /\ LET got == searchEstatesFromIDs(search[p].ids, estate)
       IN  search' = [search EXCEPT
               ![p].pc = "Done",
               ![p].did = @ \cup {"db"},
               ![p].resp = IF got.err THEN Response(InternalServerError, 0, <<>>)
                           ELSE Response(StatusOK, search[p].length, got.estates)]
    /\ UNCHANGED <<clients, call, estate, chair, redis, fill, admin, inval, chairVars>>

\* searchEstatesWithoutCache: the COUNT query
SearchCount(p) ==
    /\ search[p].pc = "Count"
    /\ search' = [search EXCEPT
           ![p].pc = "Select",
           ![p].did = @ \cup {"db"},
           ![p].count = CountQuery(Conditions(search[p].req).conditions, estate)]
    /\ UNCHANGED <<clients, call, estate, chair, redis, fill, admin, inval, chairVars>>

\* searchEstatesWithoutCache: the paginated SELECT; then the goroutine is started
SearchSelect(p) ==
    /\ search[p].pc = "Select"
    /\ search' = [search EXCEPT
           ![p].pc = "Done",
           ![p].did = @ \cup {"fill"},
           ![p].resp = Response(StatusOK, search[p].count,
                                SelectQuery(Conditions(search[p].req).conditions, estate,
                                            search[p].limit, search[p].offset))]
    /\ fill' = [fill EXCEPT ![p] = SpawnFill(search[p].req, search[p].after)]
    /\ UNCHANGED <<clients, call, estate, chair, redis, admin, inval, chairVars>>

\* the response is sent
SearchRespond(p) ==
    /\ search[p].pc = "Done"
    /\ search' = [search EXCEPT ![p] = IdleSearch]
    /\ UNCHANGED <<clients, call, estate, chair, redis, fill, admin, inval, chairVars>>

(***************************************************************************)
(* The fill goroutine: searchEstateIDsFromMysql, then putEstateIDsToRedis. *)
(* The put queues DEL and RPUSH on rdb.Pipeline(), which sends them in one *)
(* batch without MULTI/EXEC: the server runs them as two commands, and     *)
(* commands of other connections may run between them.                     *)
(***************************************************************************)
FillQuery(p) ==
    /\ fill[p].pc = "Query"
    /\ \E ids \in {searchEstateIDsFromMysql(fill[p].req, estate)} :
           fill' = [fill EXCEPT ![p] =
               IF ids = <<>> THEN NoFill
               ELSE [fill[p] EXCEPT !.pc = "Del", !.ids = ids,
                                    !.pre = fill[p].after /\ admin.pc = "Data"]]
    /\ UNCHANGED <<clients, call, estate, chair, redis, search, admin, inval, chairVars>>

FillDel(p) ==
    /\ fill[p].pc = "Del"
    /\ redis' = [redis EXCEPT ![Key(fill[p].req)] = <<>>]
    /\ fill' = [fill EXCEPT ![p].pc = "RPush"]
    /\ UNCHANGED <<clients, call, estate, chair, search, admin, inval, chairVars>>

FillRPush(p) ==
    /\ fill[p].pc = "RPush"
    /\ redis' = [redis EXCEPT ![Key(fill[p].req)] = @ \o IdStrings(fill[p].ids)]
    /\ fill' = [fill EXCEPT ![p] = NoFill]
    /\ inval' = [inval EXCEPT ![Key(fill[p].req)] =
                     IF @ = "purged" THEN "refilled" ELSE @]
    /\ UNCHANGED <<clients, call, estate, chair, search, admin, chairVars>>

(***************************************************************************)
(* The writers.  One request of postEstate or initialize is served at a    *)
(* time.  Spec holds the uploads that succeed (PostEstate); SpecImport     *)
(* holds every upload with its failures (PostEstateBegin).                 *)
(***************************************************************************)
\* a purge that leaves the keyspace as it is
purgeNothing(r) == r

\* purgeEstateIDsFromRedis: FLUSHALL ASYNC empties the keyspace at once
purgeEstateIDsFromRedis(r) == [k \in DOMAIN r |-> <<>>]

Purged(r, iv) ==
    [k \in DOMAIN r |-> IF r[k] # <<>> \/ iv[k] # "none" THEN "purged" ELSE "none"]

\* postEstate with a CSV whose rows all decode and whose ids are not in
\* the table: the rows are inserted in one transaction
PostEstate ==
    /\ clients.post
    /\ admin.pc = "idle"
    /\ \E rows \in SUBSET EstateIds :
        /\ rows \cap estate = {}
        /\ admin' = [IdleAdmin EXCEPT !.pc = "Commit", !.rows = rows, !.before = estate]
    /\ UNCHANGED <<clients, call, estate, chair, redis, search, fill, inval, chairVars>>

\* the files of SpecImport: one of a new row, one whose first row has the
\* primary key of a seed row
Uploads == {{MaxEstates}, {1, MaxEstates}}

\* postEstate with any CSV: the file is read and the transaction is begun
PostEstateBegin ==
    /\ clients.post
    /\ admin.pc = "idle"
    /\ \E rows \in Uploads :
        admin' = [IdleAdmin EXCEPT !.pc = "Insert", !.rows = rows, !.before = estate]
    /\ UNCHANGED <<clients, call, estate, chair, redis, search, fill, inval, chairVars>>

\* a row does not decode (rm.Err()): 400, and the deferred tx.Rollback()
\* undoes the rows inserted before it
PostEstateDecodeError ==
    /\ admin.pc = "Insert"
    /\ admin' = [admin EXCEPT !.pc = "Done", !.status = BadRequest]
    /\ UNCHANGED <<clients, call, estate, chair, redis, search, fill, inval, chairVars>>

\* an INSERT that fails and is not rolled back
PostEstateInsertErrorKept ==
    /\ admin.pc = "Insert"
    /\ \E id \in EstateIds \ estate :
        estate' = estate \cup {id}
    /\ admin' = [admin EXCEPT !.pc = "Done", !.status = InternalServerError]
    /\ UNCHANGED <<clients, call, chair, redis, search, fill, inval, chairVars>>

\* an INSERT fails (an id that is in the table, or a store error): 500 and
\* the rollback
PostEstateInsertError ==
    /\ admin.pc = "Insert"
    /\ admin' = [admin EXCEPT !.pc = "Done", !.status = InternalServerError]
    /\ UNCHANGED <<clients, call, estate, chair, redis, search, fill, inval, chairVars>>

\* every row is inserted in the transaction: no id of the upload is in the
\* table
PostEstateInsert ==
    /\ admin.pc = "Insert"
    /\ admin.rows \cap estate = {}
    /\ admin' = [admin EXCEPT !.pc = "Commit"]
    /\ UNCHANGED <<clients, call, estate, chair, redis, search, fill, inval, chairVars>>

\* tx.Commit() fails: 500
PostEstateCommitError ==
    /\ admin.pc = "Commit"
    /\ admin' = [admin EXCEPT !.pc = "Done", !.status = InternalServerError]
    /\ UNCHANGED <<clients, call, estate, chair, redis, search, fill, inval, chairVars>>

\* tx.Commit(): the rows become visible
PostEstateCommit ==
    /\ admin.pc = "Commit"
    /\ estate' = estate \cup admin.rows
    /\ admin' = [admin EXCEPT !.pc = "Purge"]
    /\ UNCHANGED <<clients, call, chair, redis, search, fill, inval, chairVars>>

\* purgeEstateIDsFromRedis, then 201
PostEstatePurge ==
    /\ admin.pc = "Purge"
    /\ redis' = purgeEstateIDsFromRedis(redis)
    /\ inval' = Purged(redis, inval)
    /\ admin' = [admin EXCEPT !.pc = "Done", !.status = StatusCreated, !.purged = TRUE]
    /\ UNCHANGED <<clients, call, estate, chair, search, fill, chairVars>>

\* the response is sent
PostEstateRespond ==
    /\ admin.pc = "Done"
    /\ admin' = IdleAdmin
    /\ UNCHANGED <<clients, call, estate, chair, redis, search, fill, inval, chairVars>>

\* initialize: the cache is purged first, then the three SQL files are run
Initialize ==
    /\ clients.init
    /\ admin.pc = "idle"
    /\ redis' = purgeEstateIDsFromRedis(redis)
    /\ inval' = Purged(redis, inval)
    /\ admin' = [IdleAdmin EXCEPT !.pc = "Data"]
    /\ UNCHANGED <<clients, call, estate, chair, search, fill, chairVars>>

(***************************************************************************)
(* Table chair.  chair[id] is the stock of the row, or Absent.             *)
(***************************************************************************)
ChairIds == 1..MaxChairs
Buyers == 1..NumBuyers
Absent == 0 - 1

\* 2_DummyChairData.sql
SeedChairs == [id \in ChairIds |-> MaxStock]

\* the row of id is not for sale: it is not in the table or its stock is
\* not positive
SoldOut(id) == chair[id] = Absent \/ chair[id] <= 0

\* op is the handler ("buy", "detail"); late holds when the row was sold
\* out as the request arrived, fresh while no import of the id has followed
IdleBuyer == [pc |-> "idle", op |-> "buy", id |-> 1, stock |-> 0, status |-> 0,
              fresh |-> FALSE, late |-> FALSE]

\* initialize, after the purge: the three SQL files drop and create the
\* tables and load the seed rows (DROP waits for the open transactions on
\* a table); the model takes the three runs of mysql as one step
InitializeData ==
    /\ admin.pc = "Data"
    /\ \A id \in ChairIds : rowLock[id] = 0
    /\ estate' = SeedEstates
    /\ chair' = SeedChairs
    /\ imported' = SeedChairs
    /\ sold' = [id \in ChairIds |-> 0]
    /\ admin' = IdleAdmin
    /\ fill' = [p \in Procs |-> [fill[p] EXCEPT !.after = FALSE]]
    /\ search' = [p \in Procs |-> [search[p] EXCEPT !.after = FALSE]]
    /\ UNCHANGED <<clients, call, redis, inval, rowLock, buyer>>

(***************************************************************************)
(* buyChair: one transaction; SELECT ... WHERE id = ? AND stock > 0 FOR    *)
(* UPDATE takes the row's lock and waits while another transaction holds   *)
(* it; DELETE or UPDATE; COMMIT.  A return before the commit rolls back.   *)
(***************************************************************************)
\* the request arrives, db.Beginx()
BuyBegin(b) ==
    /\ buyer[b].pc = "idle"
    /\ \E id \in ChairIds :
        buyer' = [buyer EXCEPT ![b] = [IdleBuyer EXCEPT !.pc = "Select", !.id = id,
                                                       !.fresh = TRUE,
                                                       !.late = SoldOut(id)]]
    /\ UNCHANGED <<cacheVars, chair, rowLock, imported, sold>>

\* a plain SELECT in place of the locking read
BuySelectNoLock(b) ==
    /\ buyer[b].pc = "Select"
    /\ LET id == buyer[b].id
       IN  IF chair[id] = Absent \/ chair[id] <= 0
           THEN buyer' = [buyer EXCEPT ![b].pc = "Done", ![b].status = NotFound]
           ELSE buyer' = [buyer EXCEPT ![b].pc = "Write", ![b].stock = chair[id]]
    /\ UNCHANGED <<cacheVars, chair, rowLock, imported, sold>>

\* SELECT ... FOR UPDATE: sql.ErrNoRows is 404
BuySelect(b) ==
    /\ buyer[b].pc = "Select"
    /\ LET id == buyer[b].id
       IN  /\ rowLock[id] = 0
           /\ IF chair[id] = Absent \/ chair[id] <= 0
              THEN /\ buyer' = [buyer EXCEPT ![b].pc = "Done", ![b].status = NotFound]
                   /\ rowLock' = rowLock
              ELSE /\ buyer' = [buyer EXCEPT ![b].pc = "Write", ![b].stock = chair[id]]
                   /\ rowLock' = [rowLock EXCEPT ![id] = b]
    /\ UNCHANGED <<cacheVars, chair, imported, sold>>

\* DELETE when the stock read is 1, else UPDATE stock = stock - 1
BuyWrite(b) ==
    /\ buyer[b].pc = "Write"
    /\ buyer' = [buyer EXCEPT ![b].pc = "Commit"]
    /\ UNCHANGED <<cacheVars, chair, rowLock, imported, sold>>

\* a purchase that always runs the UPDATE, also for the last unit
BuyCommitUpdateOnly(b) ==
    /\ buyer[b].pc = "Commit"
    /\ LET id == buyer[b].id
       IN  /\ chair' = [chair EXCEPT ![id] = IF @ = Absent THEN Absent ELSE @ - 1]
           /\ rowLock' = [rowLock EXCEPT ![id] = IF @ = b THEN 0 ELSE @]
           /\ sold' = [sold EXCEPT ![id] = @ + 1]
    /\ buyer' = [buyer EXCEPT ![b].pc = "Done", ![b].status = StatusOK]
    /\ UNCHANGED <<cacheVars, imported>>

\* tx.Commit(): the write becomes visible, the lock is released, 200
BuyCommit(b) ==
    /\ buyer[b].pc = "Commit"
    /\ LET id == buyer[b].id
       IN  /\ chair' = [chair EXCEPT ![id] =
                  IF buyer[b].stock = 1 \/ @ = Absent THEN Absent ELSE @ - 1]
           /\ rowLock' = [rowLock EXCEPT ![id] = IF @ = b THEN 0 ELSE @]
           /\ sold' = [sold EXCEPT ![id] = @ + 1]
    /\ buyer' = [buyer EXCEPT ![b].pc = "Done", ![b].status = StatusOK]
    /\ UNCHANGED <<cacheVars, imported>>

\* a store error in the SELECT, the write or the commit: 500, and the
\* deferred tx.Rollback() undoes the transaction
BuyStoreError(b) ==
    /\ buyer[b].pc \in {"Select", "Write", "Commit"}
    /\ rowLock' = [id \in ChairIds |-> IF rowLock[id] = b THEN 0 ELSE rowLock[id]]
    /\ buyer' = [buyer EXCEPT ![b].pc = "Done", ![b].status = InternalServerError]
    /\ UNCHANGED <<cacheVars, chair, imported, sold>>

(***************************************************************************)
(* getChairDetail: one SELECT of the row by id, outside any transaction.   *)
(***************************************************************************)
\* the request arrives with an integer id
GetChairDetailBegin(b) ==
    /\ buyer[b].pc = "idle"
    /\ \E id \in ChairIds :
        buyer' = [buyer EXCEPT ![b] = [IdleBuyer EXCEPT !.pc = "Detail", !.op = "detail",
                                                       !.id = id, !.fresh = TRUE,
                                                       !.late = SoldOut(id)]]
    /\ UNCHANGED <<cacheVars, chair, rowLock, imported, sold>>

\* the handler without the test of the stock
getChairDetailAnyStock(b) ==
    /\ buyer[b].pc = "Detail"
    /\ LET id == buyer[b].id
       IN  IF chair[id] = Absent
           THEN buyer' = [buyer EXCEPT ![b].pc = "Done", ![b].status = NotFound]
           ELSE buyer' = [buyer EXCEPT ![b].pc = "Done", ![b].status = StatusOK,
                                       ![b].stock = chair[id]]
    /\ UNCHANGED <<cacheVars, chair, rowLock, imported, sold>>

\* SELECT * FROM chair WHERE id = ?: sql.ErrNoRows is 404, a row with
\* stock <= 0 is 404, any other row is 200 with the row
getChairDetail(b) ==
    /\ buyer[b].pc = "Detail"
    /\ LET id == buyer[b].id
       IN  IF chair[id] = Absent
           THEN buyer' = [buyer EXCEPT ![b].pc = "Done", ![b].status = NotFound]
           ELSE IF chair[id] <= 0
                THEN buyer' = [buyer EXCEPT ![b].pc = "Done", ![b].status = NotFound]
                ELSE buyer' = [buyer EXCEPT ![b].pc = "Done", ![b].status = StatusOK,
                                            ![b].stock = chair[id]]
    /\ UNCHANGED <<cacheVars, chair, rowLock, imported, sold>>

\* any other error of the SELECT: 500
GetChairDetailStoreError(b) ==
    /\ buyer[b].pc = "Detail"
    /\ buyer' = [buyer EXCEPT ![b].pc = "Done", ![b].status = InternalServerError]
    /\ UNCHANGED <<cacheVars, chair, rowLock, imported, sold>>

\* the response is sent
BuyRespond(b) ==
    /\ buyer[b].pc = "Done"
    /\ buyer' = [buyer EXCEPT ![b] = IdleBuyer]
    /\ UNCHANGED <<cacheVars, chair, rowLock, imported, sold>>

\* postChair: a CSV of one row for an id that is not in the table; the
\* requests under way are no longer requests made after the import
PostChair ==
    /\ \E id \in ChairIds, stock \in 0..MaxStock :
        /\ chair[id] = Absent
        /\ rowLock[id] = 0
        /\ chair' = [chair EXCEPT ![id] = stock]
        /\ imported' = [imported EXCEPT ![id] = stock]
        /\ sold' = [sold EXCEPT ![id] = 0]
        /\ buyer' = [b \in Buyers |->
               IF buyer[b].id = id /\ buyer[b].pc # "idle"
               THEN [buyer[b] EXCEPT !.fresh = FALSE] ELSE buyer[b]]
    /\ UNCHANGED <<cacheVars, rowLock>>

(***************************************************************************)
(* The specifications.  Spec: the estate search, its cache and the writers *)
(* of table estate.  SpecChair: the purchases of chairs.                   *)
(***************************************************************************)
Init ==
    /\ estate = SeedEstates
    /\ chair = SeedChairs
    /\ redis = EmptyRedis
    /\ search = [p \in Procs |-> IdleSearch]
    /\ fill = [p \in Procs |-> NoFill]
    /\ admin = IdleAdmin
    /\ clients \in Workloads
    /\ rowLock = [id \in ChairIds |-> 0]
    /\ buyer = [b \in Buyers |-> IdleBuyer]
    /\ call = NoCall
    /\ inval = [k \in CacheKeys |-> "none"]
    /\ imported = SeedChairs
    /\ sold = [id \in ChairIds |-> 0]

Next ==
    \/ \E p \in Procs : SearchLLen(p)
    \/ \E p \in Procs : SearchLRange(p)
    \/ \E p \in Procs : SearchFromIDs(p)
    \/ \E p \in Procs : SearchCount(p)
    \/ \E p \in Procs : SearchSelect(p)
    \/ \E p \in Procs : SearchRespond(p)
    \/ \E p \in Procs : FillQuery(p)
    \/ \E p \in Procs : FillDel(p)
    \/ \E p \in Procs : FillRPush(p)
    \/ PostEstate
    \/ PostEstateCommit
    \/ PostEstatePurge
    \/ PostEstateRespond
    \/ Initialize
    \/ InitializeData

Spec == Init /\ [][Next]_vars

\* table chair holds the rows of an import, each with a stock of 1..MaxStock
InitChair ==
    /\ estate = SeedEstates
    /\ chair \in [ChairIds -> 1..MaxStock]
    /\ redis = EmptyRedis
    /\ search = [p \in Procs |-> IdleSearch]
    /\ fill = [p \in Procs |-> NoFill]
    /\ admin = IdleAdmin
    /\ clients = [reqs |-> {}, post |-> FALSE, init |-> FALSE]
    /\ rowLock = [id \in ChairIds |-> 0]
    /\ buyer = [b \in Buyers |-> IdleBuyer]
    /\ call = NoCall
    /\ inval = [k \in CacheKeys |-> "none"]
    /\ imported = chair
    /\ sold = [id \in ChairIds |-> 0]

NextChair ==
    \/ \E b \in Buyers : BuyBegin(b)
    \/ \E b \in Buyers : BuySelect(b)
    \/ \E b \in Buyers : BuyWrite(b)
    \/ \E b \in Buyers : BuyCommit(b)
    \/ \E b \in Buyers : BuyStoreError(b)
    \/ \E b \in Buyers : BuyRespond(b)
    \/ \E b \in Buyers : GetChairDetailBegin(b)
    \/ \E b \in Buyers : getChairDetail(b)
    \/ \E b \in Buyers : GetChairDetailStoreError(b)
    \/ PostChair

SpecChair == InitChair /\ [][NextChair]_vars

(***************************************************************************)
(* SpecKey: genCacheKey and makeEstateConditions on one request whose four *)
(* raw parameters are any strings over KeyAlphabet of at most MaxStrLen    *)
(* characters.                                                             *)
(***************************************************************************)
KeyAlphabet == {"0", "_", "a"}

RECURSIVE StringsUpTo(_)
StringsUpTo(n) ==
    IF n = 0 THEN {<<>>}
    ELSE LET shorter == StringsUpTo(n - 1)
         IN  shorter \cup {Append(w, c) : w \in shorter, c \in KeyAlphabet}

RawStrings == StringsUpTo(MaxStrLen)

RawRequests ==
    {Request(dh, dw, rent, f) : dh \in RawStrings, dw \in RawStrings,
                                rent \in RawStrings, f \in RawStrings}

\* what makeEstateConditions makes of a request: a rejection, or the
\* predicates with their parameters
Outcome(r) ==
    LET mc == Conditions(r)
    IN  IF mc.status # 0 THEN [rejected |-> TRUE, conditions |-> <<>>]
        ELSE [rejected |-> FALSE, conditions |-> mc.conditions]

InitKey ==
    /\ estate = SeedEstates
    /\ chair = SeedChairs
    /\ redis = EmptyRedis
    /\ search = [p \in Procs |-> IdleSearch]
    /\ fill = [p \in Procs |-> NoFill]
    /\ admin = IdleAdmin
    /\ clients = [reqs |-> {}, post |-> FALSE, init |-> FALSE]
    /\ rowLock = [id \in ChairIds |-> 0]
    /\ buyer = [b \in Buyers |-> IdleBuyer]
    /\ inval = [k \in CacheKeys |-> "none"]
    /\ imported = SeedChairs
    /\ sold = [id \in ChairIds |-> 0]
    /\ call \in {[fn |-> "request", req |-> r] : r \in RawRequests}

Fingerprint ==
    /\ call.fn = "request"
    /\ call' = [fn |-> "genCacheKey", req |-> call.req,
                key |-> Key(call.req), outcome |-> Outcome(call.req)]
    /\ UNCHANGED <<estate, chair, redis, search, fill, admin, clients, rowLock,
                   buyer, inval, imported, sold>>

NextKey == Fingerprint

SpecKey == InitKey /\ [][NextKey]_vars

(***************************************************************************)
(* SpecFault: the search and its fill goroutine when commands to the cache *)
(* and the goroutine's store query can fail.  One search request is sent,  *)
(* any number of times, and table estate is not written.                   *)
(***************************************************************************)
\* LLEN fails with an error that is not redis.Nil, taken for a miss
SearchLLenErrorAsMiss(p) ==
    /\ search[p].pc = "idle"
    /\ fill[p].pc = "none"
    /\ \E r \in clients.reqs, page \in 0..MaxPage, perPage \in 0..MaxPerPage :
        search' = [search EXCEPT ![p] =
            [IdleSearch EXCEPT !.req = r, !.limit = perPage,
                               !.offset = page * perPage, !.did = {"cache"},
                               !.pc = IF ValidFilter(r) THEN "Count" ELSE "Done",
                               !.resp = IF ValidFilter(r) THEN NoResponse
                                        ELSE Response(BadRequest, 0, <<>>),
                               !.path = "miss"]]
    /\ UNCHANGED <<clients, call, estate, chair, redis, fill, admin, inval, chairVars>>

\* LLEN fails with an error that is not redis.Nil: getEstateIDsFromRedis
\* returns it and searchEstatesWithCache answers 500
SearchLLenError(p) ==
    /\ search[p].pc = "idle"
    /\ fill[p].pc = "none"
    /\ \E r \in clients.reqs, page \in 0..MaxPage, perPage \in 0..MaxPerPage :
        search' = [search EXCEPT ![p] =
            [IdleSearch EXCEPT !.req = r, !.limit = perPage,
                               !.offset = page * perPage, !.did = {"cache"},
                               !.pc = "Done", !.path = "error",
                               !.resp = Response(InternalServerError, 0, <<>>)]]
    /\ UNCHANGED <<clients, call, estate, chair, redis, fill, admin, inval, chairVars>>

\* LRANGE fails: 500
SearchLRangeError(p) ==
    /\ search[p].pc = "LRange"
    /\ search' = [search EXCEPT ![p].pc = "Done", ![p].path = "error",
                                ![p].resp = Response(InternalServerError, 0, <<>>)]
    /\ UNCHANGED <<clients, call, estate, chair, redis, fill, admin, inval, chairVars>>

\* a failure of the goroutine's store query that reaches the request
FillQueryErrorVisible(p) ==
    /\ fill[p].pc = "Query"
    /\ fill' = [fill EXCEPT ![p] = NoFill]
    /\ search' = [search EXCEPT ![p].resp =
                      IF search[p].pc = "Done"
                      THEN Response(InternalServerError, 0, <<>>) ELSE @]
    /\ UNCHANGED <<clients, call, estate, chair, redis, admin, inval, chairVars>>

\* the goroutine's store query fails: the error is printed and
\* putEstateIDsToRedis returns at once on the nil list
FillQueryError(p) ==
    /\ fill[p].pc = "Query"
    /\ fill' = [fill EXCEPT ![p] = NoFill]
    /\ UNCHANGED <<clients, call, estate, chair, redis, search, admin, inval, chairVars>>

\* pipe.Exec fails, before the DEL has run or after the DEL and before the
\* RPUSH: the error is printed and the goroutine ends
FillExecError(p) ==
    /\ fill[p].pc \in {"Del", "RPush"}
    /\ fill' = [fill EXCEPT ![p] = NoFill]
    /\ UNCHANGED <<clients, call, estate, chair, redis, search, admin, inval, chairVars>>

InitFault ==
    /\ estate = SeedEstates
    /\ chair = SeedChairs
    /\ redis = EmptyRedis
    /\ search = [p \in Procs |-> IdleSearch]
    /\ fill = [p \in Procs |-> NoFill]
    /\ admin = IdleAdmin
    /\ clients \in {[reqs |-> {r}, post |-> FALSE, init |-> FALSE] : r \in SearchRequests}
    /\ rowLock = [id \in ChairIds |-> 0]
    /\ buyer = [b \in Buyers |-> IdleBuyer]
    /\ call = NoCall
    /\ inval = [k \in CacheKeys |-> "none"]
    /\ imported = SeedChairs
    /\ sold = [id \in ChairIds |-> 0]

NextFault ==
    \/ \E p \in Procs : SearchLLen(p)
    \/ \E p \in Procs : SearchLLenError(p)
    \/ \E p \in Procs : SearchLRange(p)
    \/ \E p \in Procs : SearchLRangeError(p)
    \/ \E p \in Procs : SearchFromIDs(p)
    \/ \E p \in Procs : SearchCount(p)
    \/ \E p \in Procs : SearchSelect(p)
    \/ \E p \in Procs : SearchRespond(p)
    \/ \E p \in Procs : FillQuery(p)
    \/ \E p \in Procs : FillQueryError(p)
    \/ \E p \in Procs : FillDel(p)
    \/ \E p \in Procs : FillRPush(p)
    \/ \E p \in Procs : FillExecError(p)

SpecFault == InitFault /\ [][NextFault]_vars

(***************************************************************************)
(* SpecRange: getRange on one range condition and one raw range id, and    *)
(* makeEstateConditions on that id as rentRangeId.                         *)
(***************************************************************************)
RangeAlphabet == {"0", "1", "2", "-", "+", "a"}

RECURSIVE RangeIdsUpTo(_)
RangeIdsUpTo(n) ==
    IF n = 0 THEN {<<>>}
    ELSE LET shorter == RangeIdsUpTo(n - 1)
         IN  shorter \cup {Append(w, c) : w \in shorter, c \in RangeAlphabet}

\* buckets a condition may hold: open below, open above, closed, open
RangeChoices ==
    {[Min |-> Unbounded, Max |-> 2], [Min |-> 2, Max |-> Unbounded],
     [Min |-> 1, Max |-> 3], [Min |-> Unbounded, Max |-> Unbounded]}

RECURSIVE RangesUpTo(_)
RangesUpTo(n) ==
    IF n = 0 THEN {<<>>}
    ELSE LET shorter == RangesUpTo(n - 1)
         IN  shorter \cup {Append(w, r) : w \in shorter, r \in RangeChoices}

InitRange ==
    /\ estate = SeedEstates
    /\ chair = SeedChairs
    /\ redis = EmptyRedis
    /\ search = [p \in Procs |-> IdleSearch]
    /\ fill = [p \in Procs |-> NoFill]
    /\ admin = IdleAdmin
    /\ clients = [reqs |-> {}, post |-> FALSE, init |-> FALSE]
    /\ rowLock = [id \in ChairIds |-> 0]
    /\ buyer = [b \in Buyers |-> IdleBuyer]
    /\ inval = [k \in CacheKeys |-> "none"]
    /\ imported = SeedChairs
    /\ sold = [id \in ChairIds |-> 0]
    /\ call \in {[fn |-> "rangeID", cond |-> [Ranges |-> rs], rangeID |-> id] :
                    rs \in RangesUpTo(MaxRanges), id \in RangeIdsUpTo(MaxIdLen)}

RangeLookup ==
    /\ call.fn = "rangeID"
    /\ LET got == getRange(call.cond, call.rangeID)
       IN  call' = [fn |-> "getRange", cond |-> call.cond, rangeID |-> call.rangeID,
                    err |-> got.err, range |-> got.range,
                    conds |-> IF got.err THEN <<>> ELSE RangeConds("rent", got.range),
                    made |-> makeEstateConditions(<<>>, <<>>, call.rangeID, <<>>)]
    /\ UNCHANGED <<estate, chair, redis, search, fill, admin, clients, rowLock,
                   buyer, inval, imported, sold>>

NextRange == RangeLookup

SpecRange == InitRange /\ [][NextRange]_vars

(***************************************************************************)
(* SpecNazotte: searchEstateNazotte.  The request holds a number of        *)
(* vertices; the bounding-box query returns the candidates in its order    *)
(* (popularity DESC, id ASC); the loop runs one ST_Contains query for each *)
(* candidate.  Which candidates the polygon contains is given by gap: a    *)
(* candidate is outside iff gap > 0 and gap divides its id.                *)
(***************************************************************************)
NazotteLimit == 50

\* the ids outside the polygon are the multiples of a gap; 0 is no gap
NazotteGaps == {0, 1, 2, 10}

\* the candidates of the bounding box: n rows, the more popular the higher
\* the id
Candidates(n) == [i \in 1..n |-> n + 1 - i]

InPolygon(id, gap) == gap = 0 \/ id % gap # 0

InitNazotte ==
    /\ estate = SeedEstates
    /\ chair = SeedChairs
    /\ redis = EmptyRedis
    /\ search = [p \in Procs |-> IdleSearch]
    /\ fill = [p \in Procs |-> NoFill]
    /\ admin = IdleAdmin
    /\ clients = [reqs |-> {}, post |-> FALSE, init |-> FALSE]
    /\ rowLock = [id \in ChairIds |-> 0]
    /\ buyer = [b \in Buyers |-> IdleBuyer]
    /\ inval = [k \in CacheKeys |-> "none"]
    /\ imported = SeedChairs
    /\ sold = [id \in ChairIds |-> 0]
    /\ call \in {[fn |-> "nazotte", pc |-> "Bind", vertices |-> v,
                  candidates |-> Candidates(n), gap |-> g, i |-> 1,
                  estatesInPolygon |-> <<>>, tested |-> 0, resp |-> NoResponse] :
                    v \in 0..MaxVertices, n \in 0..MaxCandidates, g \in NazotteGaps}

\* c.Bind, the check of the vertices, getBoundingBox and its query
NazotteQuery ==
    /\ call.fn = "nazotte" /\ call.pc = "Bind"
    /\ call' = IF call.vertices = 0
               THEN [call EXCEPT !.pc = "Done", !.resp = Response(BadRequest, 0, <<>>)]
               ELSE [call EXCEPT !.pc = "Loop"]
    /\ UNCHANGED <<estate, chair, redis, search, fill, admin, clients, rowLock,
                   buyer, inval, imported, sold>>

\* the loop body without the break
NazotteTestNoBreak ==
    /\ call.fn = "nazotte" /\ call.pc = "Loop"
    /\ call.i <= Len(call.candidates)
    /\ LET id == call.candidates[call.i]
       IN  call' = [call EXCEPT
               !.i = @ + 1,
               !.tested = @ + 1,
               !.estatesInPolygon = IF InPolygon(id, call.gap) THEN Append(@, id) ELSE @]
    /\ UNCHANGED <<estate, chair, redis, search, fill, admin, clients, rowLock,
                   buyer, inval, imported, sold>>

\* one turn of the loop: the ST_Contains query of a candidate; sql.ErrNoRows
\* is continue, a row is appended, and NazotteLimit rows end the loop
NazotteTest ==
    /\ call.fn = "nazotte" /\ call.pc = "Loop"
    /\ call.i <= Len(call.candidates)
    /\ LET id  == call.candidates[call.i]
           got == IF InPolygon(id, call.gap) THEN Append(call.estatesInPolygon, id)
                  ELSE call.estatesInPolygon
       IN  call' = [call EXCEPT
               !.i = IF InPolygon(id, call.gap) /\ Len(got) = NazotteLimit
                     THEN Len(call.candidates) + 1 ELSE @ + 1,
               !.tested = @ + 1,
               !.estatesInPolygon = got]
    /\ UNCHANGED <<estate, chair, redis, search, fill, admin, clients, rowLock,
                   buyer, inval, imported, sold>>

\* after the loop: at most NazotteLimit estates, and their number
NazotteRespond ==
    /\ call.fn = "nazotte" /\ call.pc = "Loop"
    /\ call.i > Len(call.candidates)
    /\ LET estates == IF Len(call.estatesInPolygon) > NazotteLimit
                      THEN SubSeq(call.estatesInPolygon, 1, NazotteLimit)
                      ELSE call.estatesInPolygon
       IN  call' = [call EXCEPT !.pc = "Done",
                                !.resp = Response(StatusOK, Len(estates), estates)]
    /\ UNCHANGED <<estate, chair, redis, search, fill, admin, clients, rowLock,
                   buyer, inval, imported, sold>>

NextNazotte ==
    \/ NazotteQuery
    \/ NazotteTest
    \/ NazotteRespond

SpecNazotte == InitNazotte /\ [][NextNazotte]_vars

(***************************************************************************)
(* SpecBox: getBoundingBox on one non-empty sequence of vertices, and the  *)
(* WHERE clause of the bounding-box query.  Latitudes and longitudes are   *)
(* the integers of BoxCoords: the code only compares them.                 *)
(***************************************************************************)
BoxCoords == 0..3

Coordinate(lat, lon) == [Latitude |-> lat, Longitude |-> lon]

BoxPoints == {Coordinate(lat, lon) : lat \in BoxCoords, lon \in BoxCoords}

RECURSIVE CoordinatesUpTo(_)
CoordinatesUpTo(n) ==
    IF n = 0 THEN {<<>>}
    ELSE LET shorter == CoordinatesUpTo(n - 1)
         IN  shorter \cup {Append(w, c) : w \in shorter, c \in BoxPoints}

\* the box of the first vertex, with the loop over the vertices left out
getBoundingBoxOfFirst(coordinates) ==
    [TopLeftCorner |-> coordinates[1], BottomRightCorner |-> coordinates[1]]

\* getBoundingBox: both corners start at the first vertex; each vertex in
\* turn lowers the top-left corner and raises the bottom-right corner
getBoundingBox(coordinates) ==
    LET RECURSIVE Loop(_, _)
        Loop(boundingBox, i) ==
            IF i > Len(coordinates) THEN boundingBox
            ELSE LET coordinate == coordinates[i]
                     tl == boundingBox.TopLeftCorner
                     br == boundingBox.BottomRightCorner
                 IN  Loop([TopLeftCorner |->
                               Coordinate(IF tl.Latitude > coordinate.Latitude
                                          THEN coordinate.Latitude ELSE tl.Latitude,
                                          IF tl.Longitude > coordinate.Longitude
                                          THEN coordinate.Longitude ELSE tl.Longitude),
                           BottomRightCorner |->
                               Coordinate(IF br.Latitude < coordinate.Latitude
                                          THEN coordinate.Latitude ELSE br.Latitude,
                                          IF br.Longitude < coordinate.Longitude
                                          THEN coordinate.Longitude ELSE br.Longitude)],
                          i + 1)
    IN  Loop([TopLeftCorner |-> coordinates[1], BottomRightCorner |-> coordinates[1]], 1)

\* latitude <= ? AND latitude >= ? AND longitude <= ? AND longitude >= ?
InBoundingBox(point, b) ==
    /\ point.Latitude <= b.BottomRightCorner.Latitude
    /\ point.Latitude >= b.TopLeftCorner.Latitude
    /\ point.Longitude <= b.BottomRightCorner.Longitude
    /\ point.Longitude >= b.TopLeftCorner.Longitude

InitBox ==
    /\ estate = SeedEstates
    /\ chair = SeedChairs
    /\ redis = EmptyRedis
    /\ search = [p \in Procs |-> IdleSearch]
    /\ fill = [p \in Procs |-> NoFill]
    /\ admin = IdleAdmin
    /\ clients = [reqs |-> {}, post |-> FALSE, init |-> FALSE]
    /\ rowLock = [id \in ChairIds |-> 0]
    /\ buyer = [b \in Buyers |-> IdleBuyer]
    /\ inval = [k \in CacheKeys |-> "none"]
    /\ imported = SeedChairs
    /\ sold = [id \in ChairIds |-> 0]
    /\ call \in {[fn |-> "coordinates", coordinates |-> cs] :
                    cs \in CoordinatesUpTo(MaxVertices) \ {<<>>}}

BoundingBox ==
    /\ call.fn = "coordinates"
    /\ call' = [fn |-> "getBoundingBox", coordinates |-> call.coordinates,
                box |-> getBoundingBox(call.coordinates)]
    /\ UNCHANGED <<estate, chair, redis, search, fill, admin, clients, rowLock,
                   buyer, inval, imported, sold>>

NextBox == BoundingBox

SpecBox == InitBox /\ [][NextBox]_vars

(***************************************************************************)
(* SpecRecommend: searchRecommendedEstateWithChair for one chair, or for   *)
(* an id with no chair, against a table of estates with one door for each  *)
(* pair of DoorDims.                                                       *)
(***************************************************************************)
Limit == 20

ChairDims == {1, 5, 7, 10}

DoorDims == <<1, 4, 6, 8, 9>>

\* the rows of table estate: id, door and popularity
DoorRows ==
    {[id |-> Len(DoorDims) * (i - 1) + j, door_width |-> DoorDims[i],
      door_height |-> DoorDims[j], popularity |-> (i + 2 * j) % 4] :
        i \in 1..Len(DoorDims), j \in 1..Len(DoorDims)}

\* the lengths as they are, not sorted
Unsorted(lengths) == lengths

\* sort.Slice(lengths, less): ascending
RECURSIVE SortLengths(_)
SortLengths(lengths) ==
    IF Len(lengths) <= 1 THEN lengths
    ELSE LET i == CHOOSE k \in 1..Len(lengths) :
                      \A l \in 1..Len(lengths) : lengths[k] <= lengths[l]
             rest == [k \in 1..(Len(lengths) - 1) |->
                          IF k < i THEN lengths[k] ELSE lengths[k + 1]]
         IN  <<lengths[i]>> \o SortLengths(rest)

\* ORDER BY popularity DESC, id ASC over rows
RECURSIVE OrderRows(_)
OrderRows(rows) ==
    IF rows = {} THEN <<>>
    ELSE LET first == CHOOSE r \in rows :
                          \A o \in rows :
                              \/ r.popularity > o.popularity
                              \/ r.popularity = o.popularity /\ r.id <= o.id
         IN  <<first>> \o OrderRows(rows \ {first})

\* the query of searchRecommendedEstateWithChair with its parameters
\* m1, m2, m2, m1, Limit
RecommendQuery(m1, m2, rows) ==
    LimitOffset(OrderRows({r \in rows :
                    \/ r.door_width >= m1 /\ r.door_height >= m2
                    \/ r.door_width >= m2 /\ r.door_height >= m1}),
                Limit, 0)

NoChair == [Width |-> 0, Height |-> 0, Depth |-> 0, found |-> FALSE]

InitRecommend ==
    /\ estate = SeedEstates
    /\ chair = SeedChairs
    /\ redis = EmptyRedis
    /\ search = [p \in Procs |-> IdleSearch]
    /\ fill = [p \in Procs |-> NoFill]
    /\ admin = IdleAdmin
    /\ clients = [reqs |-> {}, post |-> FALSE, init |-> FALSE]
    /\ rowLock = [id \in ChairIds |-> 0]
    /\ buyer = [b \in Buyers |-> IdleBuyer]
    /\ inval = [k \in CacheKeys |-> "none"]
    /\ imported = SeedChairs
    /\ sold = [id \in ChairIds |-> 0]
    /\ call \in {[fn |-> "chair", chair |-> c] :
                    c \in {NoChair} \cup
                          {[Width |-> w, Height |-> h, Depth |-> d, found |-> TRUE] :
                              w \in ChairDims, h \in ChairDims, d \in ChairDims}}

\* sql.ErrNoRows for the chair is 400; else the two smallest lengths and the query
Recommend ==
    /\ call.fn = "chair"
    /\ call' = IF ~call.chair.found
               THEN [fn |-> "recommended", chair |-> call.chair,
                     status |-> BadRequest, estates |-> <<>>]
               ELSE LET lengths == SortLengths(<<call.chair.Width, call.chair.Height,
                                                 call.chair.Depth>>)
                    IN  [fn |-> "recommended", chair |-> call.chair,
                         status |-> StatusOK,
                         estates |-> RecommendQuery(lengths[1], lengths[2], DoorRows)]
    /\ UNCHANGED <<estate, chair, redis, search, fill, admin, clients, rowLock,
                   buyer, inval, imported, sold>>

NextRecommend == Recommend

SpecRecommend == InitRecommend /\ [][NextRecommend]_vars

(***************************************************************************)
(* SpecImport: postEstate with the uploads that fail, beside the searches  *)
(* of one request and their fills.                                         *)
(***************************************************************************)
InitImport ==
    /\ estate = SeedEstates
    /\ chair = SeedChairs
    /\ redis = EmptyRedis
    /\ search = [p \in Procs |-> IdleSearch]
    /\ fill = [p \in Procs |-> NoFill]
    /\ admin = IdleAdmin
    /\ clients \in {[reqs |-> {r}, post |-> TRUE, init |-> FALSE] : r \in SearchRequests}
    /\ rowLock = [id \in ChairIds |-> 0]
    /\ buyer = [b \in Buyers |-> IdleBuyer]
    /\ call = NoCall
    /\ inval = [k \in CacheKeys |-> "none"]
    /\ imported = SeedChairs
    /\ sold = [id \in ChairIds |-> 0]

NextImport ==
    \/ \E p \in Procs : SearchLLen(p)
    \/ \E p \in Procs : SearchLRange(p)
    \/ \E p \in Procs : SearchFromIDs(p)
    \/ \E p \in Procs : SearchCount(p)
    \/ \E p \in Procs : SearchSelect(p)
    \/ \E p \in Procs : SearchRespond(p)
    \/ \E p \in Procs : FillQuery(p)
    \/ \E p \in Procs : FillDel(p)
    \/ \E p \in Procs : FillRPush(p)
    \/ PostEstateBegin
    \/ PostEstateDecodeError
    \/ PostEstateInsertError
    \/ PostEstateInsert
    \/ PostEstateCommitError
    \/ PostEstateCommit
    \/ PostEstatePurge
    \/ PostEstateRespond

SpecImport == InitImport /\ [][NextImport]_vars

(***************************************************************************)
(* SpecPage: the searches with page and perPage as the raw strings of the  *)
(* query, for one estate request on a table that is never written, and     *)
(* searchChairs on the same strings.  A request is held with its strings   *)
(* until its handler runs; call is the chair search under way.             *)
(***************************************************************************)
\* strings that strconv.Atoi rejects: the empty string of a missing
\* parameter, and a digit followed by a letter
NotIntegers == {<<>>, <<"1", "a">>}

PageParams == {Itoa(n) : n \in 0..MaxPage} \cup NotIntegers
PerPageParams == {Itoa(n) : n \in 0..MaxPerPage} \cup NotIntegers

\* page or perPage of request c is not an integer
BadPage(c) == ~Atoi(c.page).ok \/ ~Atoi(c.perPage).ok

\* GET /api/estate/search arrives
SearchArrive(p) ==
    /\ search[p].pc = "idle"
    /\ fill[p].pc = "none"
    /\ \E r \in clients.reqs, page \in PageParams, perPage \in PerPageParams :
        search' = [search EXCEPT ![p] =
            [IdleSearch EXCEPT !.pc = "Parse", !.req = r, !.page = page,
                               !.perPage = perPage]]
    /\ UNCHANGED <<clients, call, estate, chair, redis, fill, inval, admin, chairVars>>

\* searchEstates that drops the errors of strconv.Atoi and goes on with 0
searchEstatesDroppingErr(p) ==
    /\ search[p].pc = "Parse"
    /\ SearchLLenOf(p, search[p].req, Atoi(search[p].page).val,
                    Atoi(search[p].perPage).val)
    /\ UNCHANGED call

\* searchEstates: page, then perPage, through strconv.Atoi, 400 on an
\* error; then searchEstatesWithCache
searchEstates(p) ==
    /\ search[p].pc = "Parse"
    /\ IF BadPage(search[p])
       THEN /\ search' = [search EXCEPT ![p] =
                   [IdleSearch EXCEPT !.pc = "Done", !.req = search[p].req,
                                      !.resp = Response(BadRequest, 0, <<>>)]]
            /\ UNCHANGED <<clients, estate, chair, redis, fill, inval, admin,
                           chairVars>>
       ELSE SearchLLenOf(p, search[p].req, Atoi(search[p].page).val,
                         Atoi(search[p].perPage).val)
    /\ UNCHANGED call

\* the outcome of the conditions of searchChairs: one of them is invalid,
\* none is given, or some are given and valid
ChairConditions == {"invalid", "none", "some"}

\* GET /api/chair/search arrives
SearchChairsArrive ==
    /\ call.fn = "none"
    /\ \E cond \in ChairConditions, page \in PageParams, perPage \in PerPageParams :
        call' = [fn |-> "searchChairs", pc |-> "Parse", cond |-> cond, page |-> page,
                 perPage |-> perPage, queried |-> FALSE, status |-> 0]
    /\ UNCHANGED <<estate, chair, redis, search, fill, admin, clients, inval, chairVars>>

\* searchChairs: the conditions, then page and perPage, then the two
\* queries on table chair, either of which can fail
searchChairs ==
    /\ call.fn = "searchChairs"
    /\ call.pc = "Parse"
    /\ IF call.cond # "some" \/ ~Atoi(call.page).ok \/ ~Atoi(call.perPage).ok
       THEN call' = [call EXCEPT !.pc = "Done", !.status = BadRequest]
       ELSE \E status \in {StatusOK, InternalServerError} :
               call' = [call EXCEPT !.pc = "Done", !.queried = TRUE, !.status = status]
    /\ UNCHANGED <<estate, chair, redis, search, fill, admin, clients, inval, chairVars>>

\* the response of searchChairs is sent
SearchChairsRespond ==
    /\ call.fn = "searchChairs"
    /\ call.pc = "Done"
    /\ call' = NoCall
    /\ UNCHANGED <<estate, chair, redis, search, fill, admin, clients, inval, chairVars>>

\* the estate requests of SpecPage: one with a valid filter, one with an
\* invalid range id
PageRequests == {ReqRent, ReqBad}

InitPage ==
    /\ estate = SeedEstates
    /\ chair = SeedChairs
    /\ redis = EmptyRedis
    /\ search = [p \in Procs |-> IdleSearch]
    /\ fill = [p \in Procs |-> NoFill]
    /\ admin = IdleAdmin
    /\ clients \in {[reqs |-> {r}, post |-> FALSE, init |-> FALSE] : r \in PageRequests}
    /\ rowLock = [id \in ChairIds |-> 0]
    /\ buyer = [b \in Buyers |-> IdleBuyer]
    /\ call = NoCall
    /\ inval = [k \in CacheKeys |-> "none"]
    /\ imported = SeedChairs
    /\ sold = [id \in ChairIds |-> 0]

NextPage ==
    \/ \E p \in Procs : SearchArrive(p)
    \/ \E p \in Procs : searchEstates(p)
    \/ \E p \in Procs : SearchLRange(p)
    \/ \E p \in Procs : SearchFromIDs(p)
    \/ \E p \in Procs : SearchCount(p)
    \/ \E p \in Procs : SearchSelect(p)
    \/ \E p \in Procs : SearchRespond(p)
    \/ \E p \in Procs : FillQuery(p)
    \/ \E p \in Procs : FillDel(p)
    \/ \E p \in Procs : FillRPush(p)
    \/ SearchChairsArrive
    \/ searchChairs
    \/ SearchChairsRespond

SpecPage == InitPage /\ [][NextPage]_vars

(***************************************************************************)
(* SpecReset: initialize beside the searches of one request and their      *)
(* fills, on a table that holds the seed and the row of an earlier upload. *)
(***************************************************************************)
InitReset ==
    /\ estate = SeedEstates \cup {MaxEstates}
    /\ chair = SeedChairs
    /\ redis = EmptyRedis
    /\ search = [p \in Procs |-> IdleSearch]
    /\ fill = [p \in Procs |-> NoFill]
    /\ admin = IdleAdmin
    /\ clients \in {[reqs |-> {r}, post |-> FALSE, init |-> TRUE] :
                       r \in {q \in SearchRequests : ValidFilter(q)}}
    /\ rowLock = [id \in ChairIds |-> 0]
    /\ buyer = [b \in Buyers |-> IdleBuyer]
    /\ call = NoCall
    /\ inval = [k \in CacheKeys |-> "none"]
    /\ imported = SeedChairs
    /\ sold = [id \in ChairIds |-> 0]

NextReset ==
    \/ \E p \in Procs : SearchLLen(p)
    \/ \E p \in Procs : SearchLRange(p)
    \/ \E p \in Procs : SearchFromIDs(p)
    \/ \E p \in Procs : SearchCount(p)
    \/ \E p \in Procs : SearchSelect(p)
    \/ \E p \in Procs : SearchRespond(p)
    \/ \E p \in Procs : FillQuery(p)
    \/ \E p \in Procs : FillDel(p)
    \/ \E p \in Procs : FillRPush(p)
    \/ Initialize
    \/ InitializeData

SpecReset == InitReset /\ [][NextReset]_vars

(***************************************************************************)
(* SpecHit: one handler that serves the searches of one request one after  *)
(* the other, each fill over before the next search, on a table that is    *)
(* never written: the list of a key does not change during a hit.          *)
(***************************************************************************)
InitHit ==
    /\ estate = SeedEstates
    /\ chair = SeedChairs
    /\ redis = EmptyRedis
    /\ search = [p \in Procs |-> IdleSearch]
    /\ fill = [p \in Procs |-> NoFill]
    /\ admin = IdleAdmin
    /\ clients \in {[reqs |-> {r}, post |-> FALSE, init |-> FALSE] : r \in SearchRequests}
    /\ rowLock = [id \in ChairIds |-> 0]
    /\ buyer = [b \in Buyers |-> IdleBuyer]
    /\ call = NoCall
    /\ inval = [k \in CacheKeys |-> "none"]
    /\ imported = SeedChairs
    /\ sold = [id \in ChairIds |-> 0]

NextHit ==
    \/ SearchLLen(1)
    \/ SearchLRange(1)
    \/ SearchFromIDs(1)
    \/ SearchCount(1)
    \/ SearchSelect(1)
    \/ SearchRespond(1)
    \/ FillQuery(1)
    \/ FillDel(1)
    \/ FillRPush(1)

SpecHit == InitHit /\ [][NextHit]_vars

(***************************************************************************)
(* SpecLive: the searches of one request that matches an estate, and their *)
(* fills, with the store and the cache available and no purge.  The Go     *)
(* scheduler runs every goroutine that can run: a fill goroutine takes its *)
(* next step.  Clients need not send requests.                             *)
(***************************************************************************)
\* the requests whose query matches at least one row of the seed
MatchingRequests ==
    {r \in SearchRequests : searchEstateIDsFromMysql(r, SeedEstates) # <<>>}

InitLive ==
    /\ estate = SeedEstates
    /\ chair = SeedChairs
    /\ redis = EmptyRedis
    /\ search = [p \in Procs |-> IdleSearch]
    /\ fill = [p \in Procs |-> NoFill]
    /\ admin = IdleAdmin
    /\ clients \in {[reqs |-> {r}, post |-> FALSE, init |-> FALSE] : r \in MatchingRequests}
    /\ rowLock = [id \in ChairIds |-> 0]
    /\ buyer = [b \in Buyers |-> IdleBuyer]
    /\ call = NoCall
    /\ inval = [k \in CacheKeys |-> "none"]
    /\ imported = SeedChairs
    /\ sold = [id \in ChairIds |-> 0]

NextLive ==
    \/ \E p \in Procs : SearchLLen(p)
    \/ \E p \in Procs : SearchLRange(p)
    \/ \E p \in Procs : SearchFromIDs(p)
    \/ \E p \in Procs : SearchCount(p)
    \/ \E p \in Procs : SearchSelect(p)
    \/ \E p \in Procs : SearchRespond(p)
    \/ \E p \in Procs : FillQuery(p)
    \/ \E p \in Procs : FillDel(p)
    \/ \E p \in Procs : FillRPush(p)

\* the next step of the fill goroutine of p
FillStep(p) == FillQuery(p) \/ FillDel(p) \/ FillRPush(p)

FairLive == \A p \in Procs : WF_vars(FillStep(p))

SpecLive == InitLive /\ [][NextLive]_vars /\ FairLive

(***************************************************************************)
(* SpecEmpty: the searches of the upper rent bucket, which no row of the   *)
(* seed is in, their fills with the failures of the store query, and       *)
(* initialize, on a table that holds the seed and the row of an earlier    *)
(* upload, which is in that bucket.                                        *)
(***************************************************************************)
ReqHigh == Request(<<>>, <<>>, <<"1">>, <<>>)

KeysOfEmpty == CacheKeys \cup {Key(ReqHigh)}

InitEmpty ==
    /\ estate = SeedEstates \cup {MaxEstates}
    /\ chair = SeedChairs
    /\ redis = [k \in KeysOfEmpty |-> <<>>]
    /\ search = [p \in Procs |-> IdleSearch]
    /\ fill = [p \in Procs |-> NoFill]
    /\ admin = IdleAdmin
    /\ clients = [reqs |-> {ReqHigh}, post |-> FALSE, init |-> TRUE]
    /\ rowLock = [id \in ChairIds |-> 0]
    /\ buyer = [b \in Buyers |-> IdleBuyer]
    /\ call = NoCall
    /\ inval = [k \in KeysOfEmpty |-> "none"]
    /\ imported = SeedChairs
    /\ sold = [id \in ChairIds |-> 0]

NextEmpty ==
    \/ \E p \in Procs : SearchLLen(p)
    \/ \E p \in Procs : SearchLRange(p)
    \/ \E p \in Procs : SearchFromIDs(p)
    \/ \E p \in Procs : SearchCount(p)
    \/ \E p \in Procs : SearchSelect(p)
    \/ \E p \in Procs : SearchRespond(p)
    \/ \E p \in Procs : FillQuery(p)
    \/ \E p \in Procs : FillQueryError(p)
    \/ \E p \in Procs : FillDel(p)
    \/ \E p \in Procs : FillRPush(p)
    \/ Initialize
    \/ InitializeData

SpecEmpty == InitEmpty /\ [][NextEmpty]_vars

(***************************************************************************)
(* SpecMapper: RecordMapper on one row of a CSV file.  A mapper is its     *)
(* Record, its offset and its err (<<>> is nil); call holds the mapper,    *)
(* the last method called on it (op), what the method returned (ret) and,  *)
(* as history, the first error the mapper met (first).                     *)
(***************************************************************************)
MaxFields == 2

\* the fields: an integer, a negative integer, a decimal fraction, a word,
\* the empty field
FieldValues == {<<"7">>, <<"-", "3">>, <<"2", ".", "5">>, <<"a">>, <<>>}

RECURSIVE RecordsUpTo(_)
RecordsUpTo(n) ==
    IF n = 0 THEN {<<>>}
    ELSE RecordsUpTo(n - 1)
         \cup {Append(rec, f) : rec \in {x \in RecordsUpTo(n - 1) : Len(x) = n - 1},
                                f \in FieldValues}

Records == RecordsUpTo(MaxFields)

\* strconv.ParseFloat(s, 64) on decimal numerals of at most two fraction
\* digits: an optional sign, digits, an optional point and digits, one digit
\* at least; val is the number in hundredths
ParseFloat(s) ==
    LET signed == s # <<>> /\ s[1] \in {"+", "-"}
        body   == IF signed THEN Tail(s) ELSE s
        parts  == Split(body, ".")
        whole  == parts[1]
        frac   == IF Len(parts) = 2 THEN parts[2] ELSE <<>>
        digits == whole \o frac
        abs    == 100 * DigitsVal(whole)
                  + (IF Len(frac) = 1 THEN 10 * DigitsVal(frac) ELSE DigitsVal(frac))
    IN  IF \/ Len(parts) > 2
           \/ digits = <<>>
           \/ Len(frac) > 2
           \/ \E i \in 1..Len(digits) : ~IsDigit(digits[i])
        THEN [ok |-> FALSE, val |-> 0]
        ELSE [ok |-> TRUE, val |-> IF signed /\ s[1] = "-" THEN 0 - abs ELSE abs]

\* the errors, as the text that tells them apart
TooManyRead == <<"too many read">>
AtoiError(s) == <<"strconv.Atoi">> \o s
ParseFloatError(s) == <<"strconv.ParseFloat">> \o s

\* RecordMapper{Record: row}
NewRecordMapper(row) == [Record |-> row, offset |-> 0, err |-> <<>>]

\* next without the test of r.err
nextUnguarded(r) ==
    IF r.offset >= Len(r.Record)
    THEN [r |-> [r EXCEPT !.err = TooManyRead], s |-> <<>>, err |-> TooManyRead]
    ELSE [r |-> [r EXCEPT !.offset = @ + 1], s |-> r.Record[r.offset + 1], err |-> <<>>]

\* next: the field at the offset, or the error
next(r) ==
    IF r.err # <<>> THEN [r |-> r, s |-> <<>>, err |-> r.err]
    ELSE IF r.offset >= Len(r.Record)
    THEN [r |-> [r EXCEPT !.err = TooManyRead], s |-> <<>>, err |-> TooManyRead]
    ELSE [r |-> [r EXCEPT !.offset = @ + 1], s |-> r.Record[r.offset + 1], err |-> <<>>]

NextInt(r) ==
    LET n == next(r)
        i == Atoi(n.s)
    IN  IF n.err # <<>> THEN [r |-> n.r, ret |-> 0]
        ELSE IF ~i.ok THEN [r |-> [n.r EXCEPT !.err = AtoiError(n.s)], ret |-> 0]
        ELSE [r |-> n.r, ret |-> i.val]

NextFloat(r) ==
    LET n == next(r)
        f == ParseFloat(n.s)
    IN  IF n.err # <<>> THEN [r |-> n.r, ret |-> 0]
        ELSE IF ~f.ok THEN [r |-> [n.r EXCEPT !.err = ParseFloatError(n.s)], ret |-> 0]
        ELSE [r |-> n.r, ret |-> f.val]

NextString(r) ==
    LET n == next(r)
    IN  IF n.err # <<>> THEN [r |-> n.r, ret |-> <<>>]
        ELSE [r |-> n.r, ret |-> n.s]

Err(r) == r.err

\* the mapper of call, and call after a method has returned
Mapper == [Record |-> call.Record, offset |-> call.offset, err |-> call.err]

Called(op, r, ret) ==
    [fn |-> "RecordMapper", Record |-> r.Record, offset |-> r.offset, err |-> r.err,
     op |-> op, ret |-> ret,
     first |-> IF call.first = <<>> THEN r.err ELSE call.first]

\* postEstate and postChair make a mapper for each row
MapperNew ==
    /\ call.fn = "RecordMapper"
    /\ \E row \in Records :
        call' = [fn |-> "RecordMapper", Record |-> row, offset |-> 0, err |-> <<>>,
                 op |-> "New", ret |-> 0, first |-> <<>>]
    /\ UNCHANGED <<estate, chair, redis, search, fill, admin, clients, inval, chairVars>>

MapperNextInt ==
    /\ call.fn = "RecordMapper"
    /\ call' = Called("NextInt", NextInt(Mapper).r, NextInt(Mapper).ret)
    /\ UNCHANGED <<estate, chair, redis, search, fill, admin, clients, inval, chairVars>>

MapperNextFloat ==
    /\ call.fn = "RecordMapper"
    /\ call' = Called("NextFloat", NextFloat(Mapper).r, NextFloat(Mapper).ret)
    /\ UNCHANGED <<estate, chair, redis, search, fill, admin, clients, inval, chairVars>>

MapperNextString ==
    /\ call.fn = "RecordMapper"
    /\ call' = Called("NextString", NextString(Mapper).r, NextString(Mapper).ret)
    /\ UNCHANGED <<estate, chair, redis, search, fill, admin, clients, inval, chairVars>>

MapperErr ==
    /\ call.fn = "RecordMapper"
    /\ call' = Called("Err", Mapper, Err(Mapper))
    /\ UNCHANGED <<estate, chair, redis, search, fill, admin, clients, inval, chairVars>>

InitMapper ==
    /\ estate = SeedEstates
    /\ chair = SeedChairs
    /\ redis = EmptyRedis
    /\ search = [p \in Procs |-> IdleSearch]
    /\ fill = [p \in Procs |-> NoFill]
    /\ admin = IdleAdmin
    /\ clients = [reqs |-> {}, post |-> TRUE, init |-> FALSE]
    /\ rowLock = [id \in ChairIds |-> 0]
    /\ buyer = [b \in Buyers |-> IdleBuyer]
    /\ call \in {[fn |-> "RecordMapper", Record |-> row, offset |-> 0, err |-> <<>>,
                  op |-> "New", ret |-> 0, first |-> <<>>] : row \in Records}
    /\ inval = [k \in CacheKeys |-> "none"]
    /\ imported = SeedChairs
    /\ sold = [id \in ChairIds |-> 0]

NextMapper ==
    \/ MapperNew
    \/ MapperNextInt
    \/ MapperNextFloat
    \/ MapperNextString
    \/ MapperErr

SpecMapper == InitMapper /\ [][NextMapper]_vars

(***************************************************************************)
(* The properties.                                                         *)
(***************************************************************************)

Done(p) == search[p].pc = "Done"

\* C1: with table estate unchanged, a search with a valid filter answered
\* from the cache gets the status, the count and the estates, in order, that
\* searchEstatesWithoutCache returns for the same request, page and perPage.
C1_CacheTransparency ==
    ReadOnly =>
        \A p \in Procs :
            Done(p) /\ search[p].path = "hit" /\ ValidFilter(search[p].req)
                => search[p].resp =
                       searchEstatesWithoutCache(search[p].req, search[p].limit,
                                                 search[p].offset, estate)

BoughtBy(id) ==
    {b \in Buyers : buyer[b].pc = "Done" /\ buyer[b].fresh /\ buyer[b].id = id
                    /\ buyer[b].op = "buy" /\ buyer[b].status = StatusOK}

\* every buyer holds the answer to a request for chair id made after the
\* import, none of them a store error, and no purchase was answered before
AllAnswered(id) ==
    /\ \A b \in Buyers : /\ buyer[b].pc = "Done" /\ buyer[b].fresh /\ buyer[b].id = id
                         /\ buyer[b].op = "buy"
                         /\ buyer[b].status # InternalServerError
    /\ sold[id] = Cardinality(BoughtBy(id))

\* C2: for a chair imported with stock 1, concurrent buyChair requests never
\* commit more than one purchase, and once NumBuyers requests are answered
\* without a store error exactly one has 200, every other one has 404, and
\* the row is gone.
C2_OneBuyerWins ==
    \A id \in ChairIds :
        imported[id] = 1 =>
            /\ sold[id] <= 1
            /\ Cardinality(BoughtBy(id)) <= 1
            /\ AllAnswered(id) =>
                   /\ Cardinality(BoughtBy(id)) = 1
                   /\ \A b \in Buyers \ BoughtBy(id) : buyer[b].status = NotFound
                   /\ chair[id] = Absent \/ chair[id] = 0

C2_Witness ==
    \E id \in ChairIds :
        /\ imported[id] = 1
        /\ AllAnswered(id)
        /\ Cardinality(BoughtBy(id)) = 1
        /\ \E b \in Buyers : buyer[b].status = NotFound
        /\ chair[id] = Absent

\* C3 as stated: after a purge, the next search for a fingerprint that was
\* cached is a miss, whatever fill goroutines were under way at the purge.
C3_NextSearchMisses ==
    \A p \in Procs :
        search[p].obs \in {"purged", "refilled"} => search[p].path = "miss"

\* C3: after a purge, the next search for a fingerprint that was cached,
\* when no fill has pushed to that key between the purge and the search's
\* LLEN, is a miss: it is answered from the store (a valid request runs the
\* store queries, any other is rejected) and it starts a fill.
C3_NextSearchMissesUnlessRefilled ==
    \A p \in Procs :
        search[p].obs = "purged" =>
            /\ search[p].path = "miss"
            /\ Done(p) =>
                   /\ "fill" \in search[p].did
                   /\ ValidFilter(search[p].req) <=> "db" \in search[p].did
                   /\ ValidFilter(search[p].req) <=> search[p].resp.status = StatusOK

C3_Witness ==
    \E p \in Procs :
        /\ Done(p)
        /\ search[p].obs = "purged"
        /\ search[p].path = "miss"
        /\ search[p].resp.status = StatusOK
        /\ search[p].did = {"cache", "db", "fill"}

\* C4: with table estate unchanged, a reader never observes a key between
\* the removal of its old list and the push of the new one: a reader whose
\* LLEN found the list gets, from its LRANGE of a page that starts inside
\* the list, at least one id.
C4_ReplaceIsAtomic ==
    ReadOnly =>
        \A p \in Procs :
            /\ search[p].pc = "FromIDs"
            /\ search[p].limit >= 1
            /\ search[p].offset < search[p].length
            => search[p].ids # <<>>

\* C5: a cached list is the full ordered id list that one fill read from
\* some state of table estate for a request of that key; it is never two
\* fills' lists one after the other.
C5_ListIsOneFill ==
    \A k \in CacheKeys :
        redis[k] # <<>> =>
            \E r \in SearchRequests, rows \in SUBSET EstateIds :
                /\ Key(r) = k
                /\ redis[k] = IdStrings(searchEstateIDsFromMysql(r, rows))

\* C6: a request with the fingerprint of the request of the call gets from
\* makeEstateConditions what that request gets: both are rejected, or both
\* give the same predicates with the same parameters.
C6_FingerprintIsSound ==
    call.fn = "genCacheKey" =>
        \A r \in RawRequests :
            Key(r) = call.key => Outcome(r) = call.outcome

\* an id for one of the three ranges that getRange does not accept
InvalidRangeId(r) == Conditions(r).status # 0

\* C7: whatever the cache holds, the answer to a search with an invalid
\* range id is 400, never a 200 with listings.
C7_InvalidRangeIs400 ==
    \A p \in Procs :
        Done(p) /\ InvalidRangeId(search[p].req) =>
            search[p].resp.status = BadRequest

\* C8: a search with no filter parameter is answered with 400 without a
\* cache read, a store query or a fill.
C8_NoFilterTouchesNothing ==
    \A p \in Procs :
        search[p].pc # "idle" /\ search[p].req = ReqNone =>
            /\ search[p].did = {}
            /\ fill[p].pc = "none"
            /\ Done(p) => search[p].resp.status = BadRequest

\* C9: with table estate unchanged, a 200 answer for a valid request and
\* perPage >= 1 carries the page's slice of the full ordered result, so the
\* pages 0, 1, ... put one after the other are that result.
C9_PagesAreSlices ==
    ReadOnly =>
        \A p \in Procs :
            /\ Done(p)
            /\ search[p].resp.status = StatusOK
            /\ search[p].limit >= 1
            /\ ValidFilter(search[p].req)
            => search[p].resp.estates =
                   LimitOffset(searchEstateIDsFromMysql(search[p].req, estate),
                               search[p].limit, search[p].offset)

\* C10: with table estate unchanged, two answers from the cache to the same
\* request, page and perPage are the same.
C10_WarmRepeatIsSame ==
    ReadOnly =>
        \A p, q \in Procs :
            /\ Done(p) /\ Done(q)
            /\ search[p].path = "hit" /\ search[q].path = "hit"
            /\ search[p].req = search[q].req
            /\ search[p].limit = search[q].limit
            /\ search[p].offset = search[q].offset
            => search[p].resp = search[q].resp

\* C11: a search whose key was purged between its LLEN and its LRANGE, and
\* which therefore reads fewer ids than the length it was told, is answered
\* with 200 and not with an error.
C11_RaceIsNotAnError ==
    \A p \in Procs :
        Done(p) /\ search[p].raced => search[p].resp.status = StatusOK

\* C12: a cache read is taken for a miss only when LLEN finds the entry
\* absent; a cache read that fails with any other error ends the request
\* with 500, runs no store query and starts no fill.
C12_CacheErrorIs500 ==
    [][\A p \in Procs :
          /\ search[p].path # "miss" /\ search'[p].path = "miss"
                 => redis[Key(search'[p].req)] = <<>>
          /\ search'[p].path = "error"
                 => /\ search'[p].pc = "Done"
                    /\ search'[p].resp.status = InternalServerError
                    /\ search'[p].did \cap {"db", "fill"} = {}
                    /\ fill'[p] = fill[p]]_vars

C12_Witness ==
    \E p \in Procs :
        /\ Done(p)
        /\ search[p].path = "error"
        /\ search[p].resp.status = InternalServerError
        /\ redis[Key(search[p].req)] # <<>>

\* C13: with table estate unchanged, the answer to a miss is what
\* searchEstatesWithoutCache returns, whether the fill it started has not
\* run yet, is under way, has failed in its store query or in its cache
\* write, or has succeeded.
C13_MissIgnoresFill ==
    \A p \in Procs :
        Done(p) /\ search[p].path = "miss"
            => search[p].resp =
                   searchEstatesWithoutCache(search[p].req, search[p].limit,
                                             search[p].offset, estate)

\* a miss was answered with listings, its fill is over and cached nothing
C13_Witness ==
    \E p \in Procs :
        /\ Done(p)
        /\ search[p].path = "miss"
        /\ search[p].resp.status = StatusOK
        /\ search[p].resp.count > 0
        /\ fill[p].pc = "none"
        /\ \A q \in Procs : fill[q].pc = "none"
        /\ redis[Key(search[p].req)] = <<>>

RECURSIVE Zeros(_)
Zeros(n) == IF n = 0 THEN <<>> ELSE <<"0">> \o Zeros(n - 1)

\* string s is a decimal numeral of the natural number n: an optional sign,
\* any leading zeros, the digits of n
Denotes(s, n) ==
    \E sign \in {<<>>, <<"+">>} \cup (IF n = 0 THEN {<<"-">>} ELSE {}),
       z \in 0..Len(s) :
        s = sign \o Zeros(z) \o Itoa(n)

\* the predicates expected of a bucket: a lower bound unless min is -1, then
\* an upper bound unless max is -1
BucketConds(attr, r) ==
    (IF r.Min = 0 - 1 THEN <<>>
     ELSE << [attr |-> attr, op |-> ">=", n |-> r.Min, s |-> <<>>] >>)
    \o (IF r.Max = 0 - 1 THEN <<>>
        ELSE << [attr |-> attr, op |-> "<", n |-> r.Max, s |-> <<>>] >>)

\* C14: getRange accepts a range id exactly when it is a numeral of an index
\* in [0, len(ranges)) and then returns the bucket at that index; for an
\* accepted bucket the predicates are attr >= min iff min # -1 and
\* attr < max iff max # -1, and makeEstateConditions rejects with 400 exactly
\* the non-empty range ids that getRange rejects.
C14_RangeLookup ==
    call.fn = "getRange" =>
        LET ranges == call.cond.Ranges
            rent   == estateSearchCondition.Rent.Ranges
        IN  /\ ~call.err <=> \E i \in 0..(Len(ranges) - 1) : Denotes(call.rangeID, i)
            /\ \A i \in 0..(Len(ranges) - 1) :
                   Denotes(call.rangeID, i) =>
                       /\ call.range = ranges[i + 1]
                       /\ call.conds = BucketConds("rent", ranges[i + 1])
                       /\ Len(call.conds) \in 0..2
            /\ IF call.rangeID = <<>>
               THEN call.made = [conditions |-> <<>>, status |-> 0]
               ELSE /\ call.made.status = BadRequest
                           <=> ~\E i \in 0..(Len(rent) - 1) : Denotes(call.rangeID, i)
                    /\ \A i \in 0..(Len(rent) - 1) :
                           Denotes(call.rangeID, i) =>
                               call.made = [conditions |-> BucketConds("rent", rent[i + 1]),
                                            status |-> 0]

\* an index past the last bucket was rejected, and so was -1
C14_Witness ==
    /\ call.fn = "getRange"
    /\ call.err
    /\ Len(call.cond.Ranges) = 2
    /\ call.rangeID \in {<<"2">>, <<"-", "1">>}

\* the candidates that the polygon contains, in the order of the candidates
Confirmed(candidates, gap) ==
    LET Inside(id) == gap = 0 \/ id % gap # 0
    IN  SelectSeq(candidates, Inside)

\* C15: a polygon search with no vertex is answered with 400; any other is
\* answered with the first min(50, n) of the n candidates that the polygon
\* contains, in the order of the bounding-box query, with their number as
\* count; and no candidate after the 50th contained one is tested.
C15_NazotteCap ==
    call.fn = "nazotte" /\ call.pc = "Done" =>
        LET all == Confirmed(call.candidates, call.gap)
            m   == IF Len(all) < 50 THEN Len(all) ELSE 50
        IN  IF call.vertices = 0
            THEN call.resp.status = BadRequest /\ call.tested = 0
            ELSE /\ call.resp = [status |-> StatusOK, count |-> m,
                                 estates |-> SubSeq(all, 1, m)]
                 /\ call.resp.count = Len(call.resp.estates)
                 /\ IF Len(all) < 50 THEN call.tested = Len(call.candidates)
                    ELSE /\ call.candidates[call.tested] = all[50]
                         /\ call.tested <= Len(call.candidates)

\* more than 50 candidates are inside, some are outside, and 50 are returned
C15_Witness ==
    /\ call.fn = "nazotte" /\ call.pc = "Done"
    /\ call.resp.status = StatusOK
    /\ call.resp.count = 50
    /\ call.gap = 10
    /\ call.tested < Len(call.candidates)

Square == <<[Latitude |-> 0, Longitude |-> 0], [Latitude |-> 0, Longitude |-> 2],
            [Latitude |-> 2, Longitude |-> 2], [Latitude |-> 2, Longitude |-> 0]>>

\* C16: the corners getBoundingBox returns hold the least and the greatest
\* latitude and longitude of the vertices, so the pre-filter passes exactly
\* the points that lie, in both coordinates, between two vertices: every
\* vertex and every point inside the polygon.  For the square (0,0), (0,2),
\* (2,2), (2,0) it passes (1,1) and excludes (3,3).
C16_BoundingBox ==
    call.fn = "getBoundingBox" =>
        LET vs   == {call.coordinates[i] : i \in 1..Len(call.coordinates)}
            lats == {v.Latitude : v \in vs}
            lons == {v.Longitude : v \in vs}
            b    == call.box
        IN  /\ b.TopLeftCorner.Latitude \in lats
            /\ b.TopLeftCorner.Longitude \in lons
            /\ b.BottomRightCorner.Latitude \in lats
            /\ b.BottomRightCorner.Longitude \in lons
            /\ \A x \in lats : b.TopLeftCorner.Latitude <= x /\ x <= b.BottomRightCorner.Latitude
            /\ \A y \in lons : b.TopLeftCorner.Longitude <= y /\ y <= b.BottomRightCorner.Longitude
            /\ \A pt \in BoxPoints :
                   InBoundingBox(pt, b) <=>
                       /\ \E lo \in lats, hi \in lats : lo <= pt.Latitude /\ pt.Latitude <= hi
                       /\ \E lo \in lons, hi \in lons : lo <= pt.Longitude /\ pt.Longitude <= hi
            /\ call.coordinates = Square =>
                   /\ InBoundingBox([Latitude |-> 1, Longitude |-> 1], b)
                   /\ ~InBoundingBox([Latitude |-> 3, Longitude |-> 3], b)

C16_Witness ==
    /\ call.fn = "getBoundingBox"
    /\ call.coordinates = Square
    /\ call.box = [TopLeftCorner |-> [Latitude |-> 0, Longitude |-> 0],
                   BottomRightCorner |-> [Latitude |-> 2, Longitude |-> 2]]

\* a and b are the two smallest of w, h, d, with a <= b
TwoSmallest(a, b, w, h, d) ==
    \E c \in {w, h, d} :
        /\ a <= b /\ b <= c
        /\ \/ <<a, b, c>> = <<w, h, d>> \/ <<a, b, c>> = <<w, d, h>>
           \/ <<a, b, c>> = <<h, w, d>> \/ <<a, b, c>> = <<h, d, w>>
           \/ <<a, b, c>> = <<d, w, h>> \/ <<a, b, c>> = <<d, h, w>>

Fits(r, a, b) ==
    \/ r.door_width >= a /\ r.door_height >= b
    \/ r.door_width >= b /\ r.door_height >= a

Ranks(r, o) ==
    r.popularity > o.popularity \/ (r.popularity = o.popularity /\ r.id < o.id)

\* C17: for a chair with the two smallest dimensions a <= b, the estates
\* returned are estates whose door fits (a, b) in one of the two
\* orientations, ordered by popularity descending then id ascending, at most
\* 20 of them, and every fitting estate left out ranks after all of them;
\* with fewer than 20 fitting estates all are returned.  The chair (5,10,7)
\* uses (5,7): the door (6,8) fits and the door (4,4) does not.
C17_Recommendation ==
    call.fn = "recommended" /\ call.chair.found =>
        \A a \in ChairDims, b \in ChairDims :
            TwoSmallest(a, b, call.chair.Width, call.chair.Height, call.chair.Depth) =>
                LET fitting  == {r \in DoorRows : Fits(r, a, b)}
                    returned == {call.estates[i] : i \in 1..Len(call.estates)}
                IN  /\ call.status = StatusOK
                    /\ returned \subseteq fitting
                    /\ Len(call.estates) = Cardinality(returned)
                    /\ Len(call.estates) =
                           IF Cardinality(fitting) < 20 THEN Cardinality(fitting) ELSE 20
                    /\ \A i \in 1..Len(call.estates), j \in 1..Len(call.estates) :
                           i < j => Ranks(call.estates[i], call.estates[j])
                    /\ \A r \in fitting \ returned, o \in returned : Ranks(o, r)
                    /\ <<call.chair.Width, call.chair.Height, call.chair.Depth>> = <<5, 10, 7>> =>
                           /\ a = 5 /\ b = 7
                           /\ \E r \in returned : r.door_width = 6 /\ r.door_height = 8
                           /\ \A r \in returned : ~(r.door_width = 4 /\ r.door_height = 4)

C17_Witness ==
    /\ call.fn = "recommended"
    /\ <<call.chair.Width, call.chair.Height, call.chair.Depth>> = <<5, 10, 7>>
    /\ \E i \in 1..Len(call.estates) :
           call.estates[i].door_width = 6 /\ call.estates[i].door_height = 8

\* C18: no row of an estate upload is visible before its commit; an upload
\* that ends with 400 or 500 leaves table estate as it was and purges
\* nothing; an upload that commits makes all its rows visible, purges the
\* cache after the commit, and only then answers 201.
C18_ImportAllOrNothing ==
    /\ admin.pc \in {"Insert", "Commit"} => estate = admin.before /\ ~admin.purged
    /\ admin.pc = "Purge" => estate = admin.before \cup admin.rows /\ ~admin.purged
    /\ admin.pc = "Done" =>
           IF admin.status = StatusCreated
           THEN estate = admin.before \cup admin.rows /\ admin.purged
           ELSE /\ admin.status \in {BadRequest, InternalServerError}
                /\ estate = admin.before
                /\ ~admin.purged

\* an upload of new rows failed while a list was cached: rows and list stay
C18_Witness ==
    /\ admin.pc = "Done"
    /\ admin.status = InternalServerError
    /\ admin.rows # {}
    /\ admin.rows \cap estate = {}
    /\ \E k \in CacheKeys : redis[k] # <<>>

\* C19: a getChairDetail or buyChair request that arrives when the chair's
\* last unit has been purchased, or when its row has a stock <= 0, with no
\* import of that id since, is answered 404: never 200, and 500 only on
\* the store-error return.
C19_SoldOutIsNotFound ==
    \A b \in Buyers :
        buyer[b].pc = "Done" /\ buyer[b].late /\ buyer[b].fresh =>
            /\ buyer[b].status # StatusOK
            /\ buyer[b].status # InternalServerError => buyer[b].status = NotFound

\* after the last unit was bought, a detail request and a purchase request
\* for the id have both been answered 404
C19_Witness ==
    \E id \in ChairIds, b, d \in Buyers :
        /\ sold[id] = imported[id] /\ imported[id] > 0 /\ chair[id] = Absent
        /\ buyer[b].pc = "Done" /\ buyer[b].op = "buy" /\ buyer[b].id = id
        /\ buyer[b].late /\ buyer[b].fresh /\ buyer[b].status = NotFound
        /\ buyer[d].pc = "Done" /\ buyer[d].op = "detail" /\ buyer[d].id = id
        /\ buyer[d].late /\ buyer[d].fresh /\ buyer[d].status = NotFound

\* C20: the handler step of an estate search whose page or perPage is not an
\* integer answers 400 without a cache read, a store query or a fill, and
\* changes neither the cache nor the table; the handler step of a chair
\* search with such a page or perPage answers 400 and sends no query.
C20_BadPageIs400 ==
    [][/\ \A p \in Procs :
            (search[p].pc = "Parse" /\ BadPage(search[p]) /\ search'[p] # search[p]) =>
                /\ search'[p].pc = "Done"
                /\ search'[p].resp = Response(BadRequest, 0, <<>>)
                /\ search'[p].did = {}
                /\ fill' = fill
                /\ redis' = redis
                /\ inval' = inval
                /\ estate' = estate
       /\ (/\ call.fn = "searchChairs" /\ call.pc = "Parse" /\ BadPage(call)
           /\ call' # call) =>
                call'.status = BadRequest /\ ~call'.queried]_vars

\* an estate search with a bad page or perPage was answered 400 while the
\* list of its fingerprint was in the cache, and a chair search with valid
\* conditions and a bad page or perPage was answered 400
C20_Witness ==
    /\ \E p \in Procs :
        /\ search[p].pc = "Done"
        /\ search[p].resp.status = BadRequest
        /\ search[p].did = {}
        /\ ValidFilter(search[p].req)
        /\ redis[Key(search[p].req)] # <<>>
    /\ call.fn = "searchChairs"
    /\ call.pc = "Done"
    /\ call.cond = "some"
    /\ BadPage(call)
    /\ call.status = BadRequest

\* C21: the purge of a writer takes effect when its write is complete: a
\* postEstate that has purged has committed its rows, and a fill spawned by
\* a search that arrived after the purge of an initialize never pushes a
\* list that its query read before the end of the load.
C21_PurgeFollowsWrite ==
    [][/\ admin'.purged => estate' = admin'.before \cup admin'.rows
       /\ \A p \in Procs :
            (fill[p].pc = "RPush" /\ fill'[p].pc = "none") => ~fill[p].pre]_vars

\* the ids of a list of the cache
CachedIds(list) == [i \in 1..Len(list) |-> Atoi(list[i]).val]

\* C22: a hit answered 200 carries at most limit estates, those whose ids
\* are at positions [offset, min(offset + limit, length)) of the cached
\* list, none for perPage = 0, and its count is the length of the list.
C22_HitPageIsSlice ==
    \A p \in Procs :
        Done(p) /\ search[p].path = "hit" /\ search[p].resp.status = StatusOK =>
            LET list  == CachedIds(redis[Key(search[p].req)])
                slice == LimitOffset(list, search[p].limit, search[p].offset)
                page  == search[p].resp.estates
            IN  /\ Len(page) <= search[p].limit
                /\ {page[i] : i \in 1..Len(page)} = {slice[i] : i \in 1..Len(slice)}
                /\ search[p].resp.count = Len(list)

\* C23: a hit whose offset is at or past the end of the cached list is
\* answered 200 with no estate and the length of the list as count, as
\* searchEstatesWithoutCache answers that page.
C23_HitPastEndIsEmpty ==
    \A p \in Procs :
        LET list == redis[Key(search[p].req)]
        IN  Done(p) /\ search[p].path = "hit" /\ search[p].offset >= Len(list) =>
                /\ search[p].resp = Response(StatusOK, Len(list), <<>>)
                /\ search[p].resp =
                       searchEstatesWithoutCache(search[p].req, search[p].limit,
                                                 search[p].offset, estate)

\* the step in which purchase b gets its answer
Answered(b) == buyer[b].op = "buy" /\ buyer[b].pc # "Done" /\ buyer'[b].pc = "Done"

\* C24: for a chair imported with a stock >= 1, the purchases committed
\* never exceed that stock, a row in the table has the stock left, which is
\* >= 1, and the row is gone exactly when the whole stock is sold; a
\* purchase answered 200 lowers the stock by 1, or deletes the row of stock
\* 1, and touches no other row; a purchase answered 404 or 500 leaves table
\* chair as it is; and a row leaves the table only by the purchase of its
\* last unit.
C24_StockAccounting ==
    [][/\ \A id \in ChairIds :
            imported'[id] >= 1 =>
                /\ sold'[id] <= imported'[id]
                /\ chair'[id] = Absent <=> sold'[id] = imported'[id]
                /\ chair'[id] # Absent =>
                       chair'[id] >= 1 /\ chair'[id] = imported'[id] - sold'[id]
       /\ \A b \in Buyers :
            Answered(b) =>
                IF buyer'[b].status = StatusOK
                THEN chair' = [chair EXCEPT ![buyer[b].id] =
                                   IF @ = 1 THEN Absent ELSE @ - 1]
                ELSE chair' = chair
       /\ \A id \in ChairIds :
            (chair[id] # Absent /\ chair'[id] = Absent) =>
                /\ chair[id] = 1
                /\ \E b \in Buyers : /\ Answered(b)
                                     /\ buyer[b].id = id
                                     /\ buyer'[b].status = StatusOK]_vars

\* the whole stock of a chair imported with MaxStock units is sold, one
\* purchase of it failed in the store and one found no row
C24_Witness ==
    \E id \in ChairIds, b, c \in Buyers :
        /\ imported[id] = MaxStock /\ sold[id] = MaxStock /\ chair[id] = Absent
        /\ buyer[b].pc = "Done" /\ buyer[b].op = "buy" /\ buyer[b].id = id
        /\ buyer[b].status = InternalServerError
        /\ buyer[c].pc = "Done" /\ buyer[c].op = "buy" /\ buyer[c].id = id
        /\ buyer[c].status = NotFound

\* C25: a fill spawned by a miss for a request that matches an estate
\* completes, whether or not its request has been answered, and once the
\* list of the key is in the cache it stays there, so that every search
\* after the completion of a fill is a hit.
C25_FillLiveness ==
    /\ \A p \in Procs : (fill[p].pc = "Query") ~> (fill[p].pc = "none")
    /\ [][\A r \in MatchingRequests :
            redis[Key(r)] # <<>> => redis'[Key(r)] # <<>>]_vars

\* C26: a fill whose store query fails or returns no ids leaves every list
\* of the cache as it is; and a request whose query matches no row of the
\* table has no list under its key, so that a search for it that arrives is
\* a miss.
C26_EmptyFillWritesNothing ==
    [][/\ \A p \in Procs :
            (fill[p].pc = "Query" /\ fill'[p].pc = "none") => redis' = redis
       /\ \A r \in clients.reqs :
            searchEstateIDsFromMysql(r, estate') = <<>> =>
                /\ redis'[Key(r)] = <<>>
                /\ \A p \in Procs :
                     (search[p].pc = "idle" /\ search'[p].pc # "idle")
                         => search'[p].path = "miss"]_vars

\* what a Next method returns for field s when it succeeds, and whether it
\* can succeed on s
Converted(op, s) ==
    CASE op = "NextInt"    -> [ok |-> Atoi(s).ok, ret |-> Atoi(s).val]
      [] op = "NextFloat"  -> [ok |-> ParseFloat(s).ok, ret |-> ParseFloat(s).val]
      [] op = "NextString" -> [ok |-> TRUE, ret |-> s]

\* the zero value a Next method returns
ZeroValue(op) == IF op = "NextString" THEN <<>> ELSE 0

NextMethods == {"NextInt", "NextFloat", "NextString"}

\* C27: a new mapper is at field 0 with no error; a Next method that
\* succeeds returns the field at the offset, converted, and moves the offset
\* by one; it fails exactly when no field is left or the field does not
\* convert, and then returns the zero value; once an error is set it is the
\* first error for good, Err returns it, every Next method returns the zero
\* value and the offset stays.
C27_RecordMapper ==
    [][/\ call'.op = "New" => call'.offset = 0 /\ call'.err = <<>>
       /\ (call'.op \in NextMethods /\ call.err = <<>>) =>
            LET left == call.offset < Len(call.Record)
                conv == Converted(call'.op, call.Record[call.offset + 1])
            IN  IF left /\ conv.ok
                THEN /\ call'.err = <<>>
                     /\ call'.ret = conv.ret
                     /\ call'.offset = call.offset + 1
                ELSE /\ call'.err # <<>>
                     /\ call'.ret = ZeroValue(call'.op)
                     /\ call'.first = call'.err
       /\ (call'.op # "New" /\ call.err # <<>>) =>
            /\ call'.err = call.err
            /\ call'.err = call.first
            /\ call'.offset = call.offset
            /\ call'.op \in NextMethods => call'.ret = ZeroValue(call'.op)
       /\ call'.op = "Err" => call'.ret = call.err /\ call'.offset = call.offset
       /\ call'.op # "New" => call'.Record = call.Record]_vars

\* after a conversion error on the first field, a later NextString has
\* returned the zero value though a field was left, and the error is still
\* the first one
C27_Witness ==
    /\ call.fn = "RecordMapper"
    /\ call.op = "NextString"
    /\ Len(call.Record) = MaxFields
    /\ call.offset = 1
    /\ call.err = AtoiError(call.Record[1])
    /\ call.first = call.err
    /\ call.ret = <<>>
    /\ call.Record[2] # <<>>
====
